---------------------------- MODULE SkTimeProof ----------------------------
(***************************************************************************)
(* Proofs about SkTime, for any clients, timers, periods and bounds: IInv  *)
(* is inductive.  A step of a client changes one timer, and Changed says   *)
(* when that is enough; the scan changes them all, and ScannedTicker says  *)
(* what it makes of each.                                                  *)
(***************************************************************************)
EXTENDS SkTime, TLAPS

(* What IInv asks of the timer k. *)
Sound(ticker, calls_) ==
  /\ ticker \in Ticker
  /\ ticker.TickerState = "set" => ticker.uTimeRemaining = ticker.uTimeout
  /\ ticker.TickerState = "started" => ticker.uTimeRemaining <= ticker.uTimeout
  /\ ticker.TickerState = "started" /\ ticker.bOneShot => calls_ = 0

Timers == \A k \in Ids : Sound(KALTickers[k], fired[k])

(* IInv says of every timer that it is sound. *)
LEMMA TimersSound ==
  ASSUME IInv, NEW k \in Ids
  PROVE  Sound(KALTickers[k], fired[k])
BY DEF IInv, TypeOK, Sound, WholePeriod, OneShotOnce, State

(* A timer whose remaining time is set back to its period. *)
Reset(ticker, state) == [ticker EXCEPT !.TickerState = state, !.uTimeRemaining = ticker.uTimeout]

(* Reset makes a timer with its whole period before it. *)
LEMMA ResetSound ==
  ASSUME NEW ticker \in Ticker, NEW state \in {"set", "started"}, NEW n,
         state = "started" /\ ticker.bOneShot => n = 0
  PROVE  Sound(Reset(ticker, state), n)
<1>1. ticker.uTimeout \in Nat
  <2>1. ticker.uTimeout \in Periods \cup {0}
    BY DEF Ticker
  <2>2. Periods \cup {0} \subseteq Nat
    BY Numbers, SMT
  <2>3. QED
    BY <2>1, <2>2, Zenon
<1>2. Reset(ticker, state) \in Ticker
  BY <1>1 DEF Reset, Ticker, Status
<1>3. /\ Reset(ticker, state).TickerState = state
      /\ Reset(ticker, state).bOneShot = ticker.bOneShot
      /\ Reset(ticker, state).uTimeout = ticker.uTimeout
      /\ Reset(ticker, state).uTimeRemaining = ticker.uTimeout
  BY DEF Reset, Ticker
<1>4. Reset(ticker, state).uTimeRemaining <= Reset(ticker, state).uTimeout
  BY <1>1, <1>3
<1>5. Reset(ticker, state).TickerState = "started" /\ Reset(ticker, state).bOneShot => n = 0
  BY <1>3, Zenon
<1>6. QED
  BY <1>2, <1>3, <1>4, <1>5, Zenon DEF Sound

(* What IInv asks of the table of timers as a whole. *)
TableSound ==
  /\ KALTickers \in [Ids -> Ticker]
  /\ fired \in [Ids -> 0 .. 2]
  /\ WholePeriod /\ OneShotOnce

(* A step on one timer leaves the others sound. *)
LEMMA Changed ==
  ASSUME IInv, NEW k \in Ids, NEW ticker, NEW n \in 0 .. 2, Sound(ticker, n),
         KALTickers' = [KALTickers EXCEPT ![k] = ticker],
         fired' = [fired EXCEPT ![k] = n]
  PROVE  TableSound'
<1>1. KALTickers \in [Ids -> Ticker] /\ fired \in [Ids -> 0 .. 2]
  BY DEF IInv, TypeOK
<1>2. KALTickers' \in [Ids -> Ticker] /\ fired' \in [Ids -> 0 .. 2]
  BY <1>1 DEF Sound
<1>3. \A j \in Ids : Sound(KALTickers'[j], fired'[j])
  BY <1>1, TimersSound
<1>4. QED
  BY <1>2, <1>3 DEF TableSound, Sound, WholePeriod, OneShotOnce, State

(* A step that touches no timer. *)
LEMMA Unchanged ==
  ASSUME IInv, UNCHANGED <<KALTickers, fired>>
  PROVE  TableSound'
BY DEF IInv, TypeOK, TableSound, WholePeriod, OneShotOnce, State

(* A change of the fields of one timer, as a change of the timer. *)
LEMMA StateOnly ==
  ASSUME IInv, NEW k \in Ids, NEW state \in {"free", "created"},
         KALTickers' = [KALTickers EXCEPT ![k].TickerState = state],
         fired' = fired
  PROVE  TableSound'
<1> DEFINE ticker == [KALTickers[k] EXCEPT !.TickerState = state]
<1>1. KALTickers[k] \in Ticker /\ fired \in [Ids -> 0 .. 2]
  BY DEF IInv, TypeOK
<1>2. Sound(ticker, fired[k])
  BY <1>1 DEF Sound, Ticker, Status
<1>3. KALTickers' = [KALTickers EXCEPT ![k] = ticker] /\ fired' = [fired EXCEPT ![k] = fired[k]]
  BY <1>1 DEF IInv, TypeOK
<1>4. QED
  BY <1>1, <1>2, <1>3, Changed

(* sk_tick_start gives the timer its whole period and a new count. *)
LEMMA StartedSound ==
  ASSUME IInv, NEW k \in Ids, Started(k)
  PROVE  /\ TableSound'
         /\ gfTickCallbackSem' \in 1 .. MaxPosts
         /\ fresh' \subseteq Ids
<1> DEFINE ticker == Reset(KALTickers[k], "started")
<1>1. KALTickers[k] \in Ticker
  BY DEF IInv, TypeOK
<1>2. Sound(ticker, 0)
  BY <1>1, ResetSound
<1>3. KALTickers' = [KALTickers EXCEPT ![k] = ticker] /\ fired' = [fired EXCEPT ![k] = 0]
  BY DEF Started, Reset, IInv, TypeOK
<1>4. 0 \in 0 .. 2
  OBVIOUS
<1>5. TableSound'
  <2> HIDE DEF ticker
  <2> QED
    BY <1>2, <1>3, <1>4, Changed
<1>6. QED
  BY <1>5, Numbers DEF Started, IInv, TypeOK

(* sk_tick_stop leaves a timer that is set with its whole period. *)
LEMMA StoppedSound ==
  ASSUME IInv, NEW k \in Ids, Stopped(k), UNCHANGED fired
  PROVE  TableSound'
<1> DEFINE ticker == Reset(KALTickers[k], "set")
<1>1. KALTickers[k] \in Ticker /\ fired \in [Ids -> 0 .. 2]
  BY DEF IInv, TypeOK
<1>2. CASE State(k) = "started"
  <2>1. Sound(ticker, fired[k])
    BY <1>1, ResetSound
  <2>2. KALTickers' = [KALTickers EXCEPT ![k] = ticker] /\ fired' = [fired EXCEPT ![k] = fired[k]]
    BY <1>1, <1>2 DEF Stopped, Reset, IInv, TypeOK
  <2>3. QED
    BY <1>1, <2>1, <2>2, Changed
<1>3. CASE State(k) # "started"
  BY <1>3, Unchanged DEF Stopped
<1>4. QED
  BY <1>2, <1>3

(***************************************************************************)
(* The steps.                                                              *)
(***************************************************************************)

LEMMA InitIInv == Init => IInv
BY Numbers, CallIsNoSetting
   DEF Init, IInv, TypeOK, CallShape, WholePeriod, OneShotOnce, StartIsSeen, State, Ticker, Status

LEMMA CreateStep ==
  ASSUME IInv, NEW c \in Clients, Create(c)
  PROVE  IInv'
<1>1. TableSound'
  BY StateOnly DEF Create, history
<1>2. PICK k \in Ids : arg' = [arg EXCEPT ![c] = [id |-> k]]
  BY DEF Create
<1>3. [id |-> k] \in Creation
  BY DEF Creation
<1>4. QED
  BY <1>1, <1>2, <1>3 DEF Create, history, tickTask, TableSound, IInv, TypeOK, CallShape, StartIsSeen

(* The end of a call keeps the types of pc and arg. *)
LEMMA EndsTypes ==
  ASSUME IInv, NEW c \in Clients, Ends(c)
  PROVE  /\ pc' \in [Clients -> {"idle", "callback", "stop", "set", "restart"}]
         /\ arg' \in [Clients -> Setting \cup Creation \cup {NoCall}]
         /\ CallShape'
BY DEF Ends, IInv, TypeOK, CallShape

LEMMA StoreCallbackStep ==
  ASSUME IInv, NEW c \in Clients, StoreCallback(c)
  PROVE  IInv'
<1> DEFINE k == arg[c].id
           ticker == [KALTickers[k] EXCEPT !.pfnCallback = c]
<1>1. k \in Ids
  BY DEF StoreCallback, IInv, CallShape, Creation
<1>2. KALTickers[k] \in Ticker /\ fired[k] \in 0 .. 2 /\ fired' = [fired EXCEPT ![k] = fired[k]]
  BY <1>1 DEF StoreCallback, history, IInv, TypeOK
<1>3. Sound(ticker, fired[k])
  BY <1>1, <1>2, TimersSound DEF Sound, Ticker
<1>4. KALTickers' = [KALTickers EXCEPT ![k] = ticker]
  BY <1>1, <1>2 DEF StoreCallback, IInv, TypeOK
<1>5. TableSound'
  <2> HIDE DEF ticker, k
  <2> QED
    BY <1>1, <1>2, <1>3, <1>4, Changed
<1>6. /\ pc' \in [Clients -> {"idle", "callback", "stop", "set", "restart"}]
      /\ arg' \in [Clients -> Setting \cup Creation \cup {NoCall}]
      /\ CallShape'
  BY EndsTypes DEF StoreCallback
<1>7. QED
  BY <1>5, <1>6 DEF StoreCallback, history, tickTask, TableSound, IInv, TypeOK, StartIsSeen

LEMMA DestroyStep ==
  ASSUME IInv, NEW c \in Clients, NEW k \in Ids, Destroy(c, k)
  PROVE  IInv'
<1>1. TableSound'
  BY StateOnly DEF Destroy, history
<1>2. QED
  BY <1>1 DEF Destroy, calls, history, tickTask, TableSound, IInv, TypeOK, CallShape, StartIsSeen

LEMMA StartStep ==
  ASSUME IInv, NEW c \in Clients, NEW k \in Ids, Start(c, k)
  PROVE  IInv'
<1>1. /\ TableSound'
      /\ gfTickCallbackSem' \in 1 .. MaxPosts
      /\ fresh' \subseteq Ids
  BY StartedSound DEF Start
<1>2. QED
  BY <1>1, Numbers DEF Start, calls, tickTask, TableSound, IInv, TypeOK, CallShape, StartIsSeen

LEMMA StopStep ==
  ASSUME IInv, NEW c \in Clients, NEW k \in Ids, Stop(c, k)
  PROVE  IInv'
<1>1. TableSound'
  BY StoppedSound DEF Stop, history
<1>2. QED
  BY <1>1 DEF Stop, calls, history, tickTask, TableSound, IInv, TypeOK, CallShape, StartIsSeen

(* sk_tick_set leaves a timer with its new period before it. *)
LEMMA NewSettingSound ==
  ASSUME IInv, NEW s \in Setting, NewSetting(s), UNCHANGED fired
  PROVE  TableSound'
<1> DEFINE k == s.id
           ticker == [KALTickers[k] EXCEPT !.TickerState = "set", !.bOneShot = s.bOneShot,
                                           !.uTimeout = s.uTimeout, !.uTimeRemaining = s.uTimeout]
<1>1. k \in Ids /\ s.bOneShot \in BOOLEAN /\ s.uTimeout \in Periods /\ s.uTimeout \in Nat
  BY Numbers DEF Setting
<1>2. KALTickers[k] \in Ticker /\ fired[k] \in 0 .. 2 /\ fired' = [fired EXCEPT ![k] = fired[k]]
  BY <1>1 DEF IInv, TypeOK
<1>3. CASE State(s.id) = "free"
  BY <1>3, Unchanged DEF NewSetting
<1>4. CASE State(s.id) # "free"
  <2>1. Sound(ticker, fired[k])
    BY <1>1, <1>2 DEF Sound, Ticker, Status
  <2>2. KALTickers' = [KALTickers EXCEPT ![k] = ticker]
    BY <1>1, <1>2, <1>4 DEF NewSetting, IInv, TypeOK
  <2> HIDE DEF ticker, k
  <2>3. QED
    BY <1>1, <1>2, <2>1, <2>2, Changed
<1>5. QED
  BY <1>3, <1>4

LEMMA CallSetStep ==
  ASSUME IInv, NEW c \in Clients, NEW s \in Setting, CallSet(c, s)
  PROVE  IInv'
<1>1. TableSound'
  BY Unchanged, NewSettingSound DEF CallSet, history
<1>2. QED
  BY <1>1 DEF CallSet, calls, history, tickTask, TableSound, IInv, TypeOK, CallShape, StartIsSeen

LEMMA SetStopsStep ==
  ASSUME IInv, NEW c \in Clients, SetStops(c)
  PROVE  IInv'
<1>1. arg[c] \in Setting /\ arg[c].id \in Ids
  BY DEF SetStops, IInv, CallShape, Setting
<1>2. TableSound'
  BY <1>1, StoppedSound DEF SetStops, history
<1>3. QED
  BY <1>1, <1>2 DEF SetStops, history, tickTask, TableSound, IInv, TypeOK, CallShape, StartIsSeen

LEMMA SetTickerStep ==
  ASSUME IInv, NEW c \in Clients, SetTicker(c)
  PROVE  IInv'
<1>1. arg[c] \in Setting
  BY DEF SetTicker, IInv, CallShape
<1>2. TableSound'
  BY <1>1, NewSettingSound DEF SetTicker, history
<1>3. QED
  BY <1>1, <1>2 DEF SetTicker, history, tickTask, TableSound, IInv, TypeOK, CallShape, StartIsSeen

LEMMA SetRestartsStep ==
  ASSUME IInv, NEW c \in Clients, SetRestarts(c)
  PROVE  IInv'
<1>1. arg[c].id \in Ids
  BY DEF SetRestarts, IInv, CallShape, Setting
<1>2. /\ pc' \in [Clients -> {"idle", "callback", "stop", "set", "restart"}]
      /\ arg' \in [Clients -> Setting \cup Creation \cup {NoCall}]
      /\ CallShape'
  BY EndsTypes DEF SetRestarts
<1>3. CASE Started(arg[c].id)
  <2>1. /\ TableSound'
        /\ gfTickCallbackSem' \in 1 .. MaxPosts
        /\ fresh' \subseteq Ids
    BY <1>1, <1>3, StartedSound
  <2>2. QED
    BY <1>2, <2>1 DEF SetRestarts, tickTask, TableSound, IInv, TypeOK, StartIsSeen
<1>4. CASE UNCHANGED <<KALTickers, gfTickCallbackSem, history>>
  <2>1. TableSound'
    BY <1>4, Unchanged DEF history
  <2>2. QED
    BY <1>2, <1>4, <2>1 DEF SetRestarts, history, tickTask, TableSound, IInv, TypeOK, StartIsSeen
<1>5. QED
  BY <1>3, <1>4 DEF SetRestarts

LEMMA TaskWakesStep ==
  ASSUME IInv, TaskWakes
  PROVE  IInv'
<1>1. TableSound'
  BY Unchanged DEF TaskWakes, history
<1>2. QED
  BY <1>1, Numbers DEF TaskWakes, calls, history, TableSound, IInv, TypeOK, CallShape, StartIsSeen

(* The timer k after a scan that finds so many milliseconds elapsed. *)
Scanned(k, elapsed) ==
  IF Expired(k, elapsed) THEN AfterCallback(KALTickers[k])
  ELSE IF State(k) = "started"
       THEN [KALTickers[k] EXCEPT !.uTimeRemaining = @ - elapsed]
       ELSE KALTickers[k]

CalledBack(k, elapsed) ==
  IF Expired(k, elapsed) /\ fired[k] < 2 THEN fired[k] + 1 ELSE fired[k]

(* Whatever the time elapsed, the countdown does not pass zero, and what a *)
(* callback leaves behind is sound.                                        *)
LEMMA ScannedTicker ==
  ASSUME IInv, NEW k \in Ids, NEW elapsed \in 0 .. MaxElapsed
  PROVE  Sound(Scanned(k, elapsed), CalledBack(k, elapsed)) /\ CalledBack(k, elapsed) \in 0 .. 2
<1>1. /\ Sound(KALTickers[k], fired[k]) /\ fired[k] \in 0 .. 2
      /\ KALTickers[k] \in Ticker
  BY TimersSound DEF IInv, TypeOK
<1>2. CalledBack(k, elapsed) \in 0 .. 2
  BY <1>1 DEF CalledBack
<1>3. CASE Expired(k, elapsed)
  <2>1. CASE KALTickers[k].bOneShot
    <3>1. Scanned(k, elapsed) = Reset(KALTickers[k], "set")
      BY <1>3, <2>1 DEF Scanned, AfterCallback, Reset
    <3>2. QED
      BY <1>1, <1>2, <3>1, ResetSound
  <2>2. CASE ~ KALTickers[k].bOneShot
    <3>1. Scanned(k, elapsed) = Reset(KALTickers[k], "started")
      BY <1>3, <2>2 DEF Scanned, AfterCallback, Reset
    <3>2. QED
      BY <1>1, <1>2, <2>2, <3>1, ResetSound
  <2>3. QED
    BY <2>1, <2>2
<1>4. CASE ~ Expired(k, elapsed) /\ State(k) = "started"
  BY <1>1, <1>4, Numbers DEF Scanned, CalledBack, Expired, State, Sound, Ticker, Status
<1>5. CASE ~ Expired(k, elapsed) /\ State(k) # "started"
  BY <1>1, <1>5 DEF Scanned, CalledBack, State, Sound
<1>6. QED
  BY <1>2, <1>3, <1>4, <1>5

LEMMA TaskScansStep ==
  ASSUME IInv, TaskScans
  PROVE  IInv'
<1>1. PICK elapsed \in 0 .. MaxElapsed :
        /\ KALTickers' = [k \in Ids |-> Scanned(k, elapsed)]
        /\ fired' = [k \in Ids |-> CalledBack(k, elapsed)]
  BY DEF TaskScans, Scanned, CalledBack
<1>2. \A k \in Ids : Sound(KALTickers'[k], fired'[k]) /\ fired'[k] \in 0 .. 2
  BY <1>1, ScannedTicker
<1>3. KALTickers' \in [Ids -> Ticker] /\ fired' \in [Ids -> 0 .. 2]
  BY <1>1, <1>2 DEF Sound
<1>4. WholePeriod' /\ OneShotOnce'
  BY <1>2 DEF Sound, WholePeriod, OneShotOnce, State
<1>5. uTimeout' \in Nat \cup {Infinity}
  <2>1. \A k \in Ids : KALTickers'[k].uTimeRemaining \in Nat
    BY <1>3 DEF Ticker
  <2>2. uTimeout' = Infinity \/ \E k \in Ids : uTimeout' = KALTickers'[k].uTimeRemaining
    BY DEF TaskScans
  <2>3. QED
    BY <2>1, <2>2
<1>6. QED
  BY <1>3, <1>4, <1>5 DEF TaskScans, calls, IInv, TypeOK, CallShape, StartIsSeen

-----------------------------------------------------------------------------
LEMMA NextIInv == IInv /\ [Next]_vars => IInv'
<1> SUFFICES ASSUME IInv, [Next]_vars PROVE IInv'
  OBVIOUS
<1>1. CASE Tick_task
  BY <1>1, TaskWakesStep, TaskScansStep DEF Tick_task
<1>2. ASSUME NEW c \in Clients, Create(c) \/ Inside(c) PROVE IInv'
  BY <1>2, CreateStep, StoreCallbackStep, SetStopsStep, SetTickerStep, SetRestartsStep DEF Inside
<1>3. ASSUME NEW c \in Clients, NEW k \in Ids, Destroy(c, k) \/ Start(c, k) \/ Stop(c, k) PROVE IInv'
  BY <1>3, DestroyStep, StartStep, StopStep
<1>4. ASSUME NEW c \in Clients, NEW s \in Setting, CallSet(c, s) PROVE IInv'
  BY <1>4, CallSetStep
<1>5. CASE UNCHANGED vars
  BY <1>5 DEF vars, IInv, TypeOK, CallShape, WholePeriod, OneShotOnce, StartIsSeen, State
<1>6. QED
  BY <1>1, <1>2, <1>3, <1>4, <1>5 DEF Next

(* IInv is an invariant of the timers. *)
THEOREM Invariance == Spec => []IInv
<1>1. Init => IInv
  BY InitIInv
<1>2. IInv /\ [Next]_vars => IInv'
  BY NextIInv
<1>3. QED
  BY <1>1, <1>2, PTL DEF Spec

(* No remaining time is ever less than zero, where the u32 of the code     *)
(* would wrap around, whatever is set, stopped and scanned in between.     *)
THEOREM TypeCorrect == Spec => []TypeOK
<1>1. IInv => TypeOK
  BY DEF IInv
<1>2. QED
  BY <1>1, Invariance, PTL

(* A timer that is set has its whole period before it, one that runs has   *)
(* at most that.                                                           *)
THEOREM PeriodStaysWhole == Spec => []WholePeriod
<1>1. IInv => WholePeriod
  BY DEF IInv
<1>2. QED
  BY <1>1, Invariance, PTL

(* A single-shot timer does not run on after its callback. *)
THEOREM FiresOnce == Spec => []OneShotOnce
<1>1. IInv => OneShotOnce
  BY DEF IInv
<1>2. QED
  BY <1>1, Invariance, PTL

(* tick_task overlooks no start. *)
THEOREM NoStartOverlooked == Spec => []StartIsSeen
<1>1. IInv => StartIsSeen
  BY DEF IInv
<1>2. QED
  BY <1>1, Invariance, PTL

=============================================================================
