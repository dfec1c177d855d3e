---------------------------- MODULE WorkQueueProofs ----------------------------
(***************************************************************************)
(* What the abstract queue promises, proved once at the grain of its steps *)
(* and carried over to the calls of its clients, each of which is at most  *)
(* three steps.  A module that implements Spec or CallSpec inherits it.    *)
(***************************************************************************)
EXTENDS WorkQueue, TLAPS

States == [Items -> Phases]
StepOrNot(p, q) == q = p \/ Step(p, q)

(* At most one item of a session executes in p.                            *)
Serial(p) ==
  \A i, j \in Items : i # j /\ SessionOf[i] = SessionOf[j] => ~Busy(p, i) \/ ~Busy(p, j)

(* What p calls over or submitted, q does not call otherwise.              *)
Lasting(p, q) ==
  \A i \in Items : /\ p[i] \in Over => q[i] \in Over
                   /\ p[i] # "none" => q[i] # "none"

-----------------------------------------------------------------------------
(* One step of the queue leads from phases to phases.                      *)
LEMMA StepTypes ==
  ASSUME NEW p \in States, NEW q, StepOrNot(p, q)
  PROVE  q \in States
<1>1. ASSUME NEW i \in Items, Submit(p, q, i) \/ Begin(p, q, i) \/ End(p, q, i) \/ SettleUnrun(p, q, i)
      PROVE  q \in States
  BY <1>1 DEF States, Phases, Submit, Begin, End, SettleUnrun
<1>2. CASE Withdraw(p, q)
  BY <1>2 DEF Withdraw, Without, Withdrawn, States, Phases
<1>3. CASE Crash(p, q)
  BY <1>3 DEF Crash, Restarted, Interrupted, States, Phases
<1>4. QED
  BY <1>1, <1>2, <1>3 DEF StepOrNot, Step

(* No step lets a second item of a session execute.                        *)
LEMMA StepSerial ==
  ASSUME NEW p \in States, NEW q, StepOrNot(p, q), Serial(p)
  PROVE  Serial(q)
<1> SUFFICES ASSUME NEW i \in Items, NEW j \in Items, i # j, SessionOf[i] = SessionOf[j],
                    Busy(q, i), Busy(q, j)
             PROVE  FALSE
  BY DEF Serial
<1> USE DEF States, Busy
<1>1. ~Busy(p, i) \/ ~Busy(p, j)
  BY DEF Serial
<1>2. ASSUME NEW k \in Items, Begin(p, q, k) PROVE FALSE
  BY <1>1, <1>2 DEF Begin, Free
<1>3. ASSUME NEW k \in Items, Submit(p, q, k) \/ End(p, q, k) \/ SettleUnrun(p, q, k) PROVE FALSE
  BY <1>1, <1>3 DEF Submit, End, SettleUnrun
<1>4. CASE Withdraw(p, q)
  BY <1>1, <1>4 DEF Withdraw, Without, Withdrawn
<1>5. CASE Crash(p, q)
  BY <1>1, <1>5 DEF Crash, Restarted, Interrupted
<1>6. QED
  BY <1>1, <1>2, <1>3, <1>4, <1>5 DEF StepOrNot, Step

(* No step takes up again what is over, or forgets what was submitted.     *)
LEMMA StepLasts ==
  ASSUME NEW p \in States, NEW q, StepOrNot(p, q)
  PROVE  Lasting(p, q)
<1> SUFFICES ASSUME NEW i \in Items
             PROVE  (p[i] \in Over => q[i] \in Over) /\ (p[i] # "none" => q[i] # "none")
  BY DEF Lasting
<1> USE DEF States, Over
<1>1. ASSUME NEW k \in Items, Submit(p, q, k) \/ Begin(p, q, k) \/ End(p, q, k) \/ SettleUnrun(p, q, k)
      PROVE  (p[i] \in Over => q[i] \in Over) /\ (p[i] # "none" => q[i] # "none")
  BY <1>1 DEF Submit, Begin, End, SettleUnrun
<1>2. CASE Withdraw(p, q)
  BY <1>2 DEF Withdraw, Without, Withdrawn
<1>3. CASE Crash(p, q)
  BY <1>3 DEF Crash, Restarted, Interrupted
<1>4. QED
  BY <1>1, <1>2, <1>3 DEF StepOrNot, Step

-----------------------------------------------------------------------------
(* Where an item goes onward is a step of the queue.                       *)
LEMMA OnwardIsStep ==
  ASSUME NEW p \in States, NEW i \in Items, NEW v \in Onward(p, i) \cup {p[i]}
  PROVE  StepOrNot(p, [p EXCEPT ![i] = v])
<1> DEFINE q == [p EXCEPT ![i] = v]
<1>1. CASE v = p[i]
  BY <1>1 DEF StepOrNot, States
<1>2. ASSUME v \in Onward(p, i)
      PROVE  Submit(p, q, i) \/ Begin(p, q, i) \/ End(p, q, i) \/ SettleUnrun(p, q, i)
  <2>1. p[i] \in Phases
    BY DEF States
  <2>2. CASE p[i] = "none"
    BY <1>2, <2>2 DEF Onward, Submit
  <2>3. CASE p[i] = "waiting"
    BY <1>2, <2>3 DEF Onward, Begin, SettleUnrun
  <2>4. CASE p[i] = "executing"
    BY <1>2, <2>4 DEF Onward, End
  <2>5. CASE p[i] = "orphan"
    BY <1>2, <2>5 DEF Onward, End
  <2>6. CASE p[i] \in {"settled", "gone"}
    BY <1>2, <2>6 DEF Onward
  <2>7. QED
    BY <2>1, <2>2, <2>3, <2>4, <2>5, <2>6 DEF Phases
<1> HIDE DEF q
<1>3. QED
  BY <1>1, <1>2 DEF StepOrNot, Step, q

(* The grain of the clients adds no behaviour: a call is a withdrawal, a   *)
(* step of one item and a crash, in this order, each of which may be left  *)
(* out.                                                                    *)
THEOREM CallIsSteps ==
  ASSUME TypeOK, Call
  PROVE  \E p, q \in States :
           StepOrNot(phase, p) /\ StepOrNot(p, q) /\ StepOrNot(q, phase')
<1>0. phase \in States
  BY DEF TypeOK, States
<1>1. PICK S \in SUBSET Rows, i \in Items, crash \in BOOLEAN :
        \E v \in Onward(Without(phase, S), i) \cup {Without(phase, S)[i]} :
          phase' = IF crash THEN Restarted([Without(phase, S) EXCEPT ![i] = v])
                   ELSE [Without(phase, S) EXCEPT ![i] = v]
  BY DEF Call
<1> DEFINE p == Without(phase, S)
<1>2. PICK v \in Onward(p, i) \cup {p[i]} :
        phase' = IF crash THEN Restarted([p EXCEPT ![i] = v]) ELSE [p EXCEPT ![i] = v]
  BY <1>1
<1>3. StepOrNot(phase, p)
  BY DEF StepOrNot, Step, Withdraw, Rows
<1>4. p \in States
  BY <1>0, <1>3, StepTypes
<1> HIDE DEF p
<1> DEFINE q == [p EXCEPT ![i] = v]
<1>5. StepOrNot(p, q)
  BY <1>4, OnwardIsStep
<1>6. q \in States
  BY <1>4, <1>5, StepTypes
<1>7. phase' = Restarted(q) \/ phase' = q
  BY <1>2
<1> HIDE DEF q
<1>8. StepOrNot(q, phase')
  BY <1>7 DEF StepOrNot, Step, Crash
<1>9. QED
  BY <1>3, <1>4, <1>5, <1>6, <1>8

(* What a call does, like what a step does, is typed, serial and lasting.  *)
LEMMA CallKeeps ==
  ASSUME TypeOK, OneAtATime, [Call]_phase
  PROVE  TypeOK' /\ OneAtATime' /\ Lasting(phase, phase')
<1>0. phase \in States /\ Serial(phase)
  BY DEF TypeOK, States, OneAtATime, Serial
<1>1. PICK p \in States, q \in States :
        StepOrNot(phase, p) /\ StepOrNot(p, q) /\ StepOrNot(q, phase')
  <2>1. CASE Call
    BY <2>1, CallIsSteps
  <2>2. CASE UNCHANGED phase
    BY <1>0, <2>2 DEF StepOrNot
  <2>3. QED
    BY <2>1, <2>2
<1>2. phase' \in States /\ Serial(phase')
  <2>1. Serial(p) /\ Serial(q)
    BY <1>0, <1>1, StepSerial
  <2>2. QED
    BY <1>1, <2>1, StepSerial, StepTypes
<1>3. Lasting(phase, p) /\ Lasting(p, q) /\ Lasting(q, phase')
  BY <1>0, <1>1, StepLasts
<1>4. Lasting(phase, phase')
  BY <1>3 DEF Lasting
<1>5. QED
  BY <1>2, <1>4 DEF TypeOK, States, OneAtATime, Serial

(* The empty queue.                                                        *)
LEMMA InitKeeps == Init => TypeOK /\ OneAtATime
  BY DEF Init, TypeOK, Phases, OneAtATime, Busy

(* Whoever implements the queue, or uses it as a client, executes at most  *)
(* one item of a session at any time, withdrawn ones that still execute    *)
(* included, and takes up nothing that is over, across crashes.            *)
THEOREM StepsAreSerial == Spec => []OneAtATime /\ OverForGood /\ NeverForgotten
<1>1. TypeOK /\ OneAtATime /\ [Next]_phase => TypeOK' /\ OneAtATime' /\ Lasting(phase, phase')
  <2> SUFFICES ASSUME TypeOK, OneAtATime, [Next]_phase
               PROVE  TypeOK' /\ OneAtATime' /\ Lasting(phase, phase')
    OBVIOUS
  <2>1. phase \in States /\ Serial(phase) /\ StepOrNot(phase, phase')
    BY DEF TypeOK, States, OneAtATime, Serial, Next, StepOrNot
  <2>2. phase' \in States /\ Serial(phase') /\ Lasting(phase, phase')
    BY <2>1, StepTypes, StepSerial, StepLasts
  <2>3. QED
    BY <2>2 DEF TypeOK, States, OneAtATime, Serial
<1>2. Lasting(phase, phase') => \A i \in Items : phase[i] \in Over => phase'[i] \in Over
  BY DEF Lasting
<1>3. Lasting(phase, phase') => \A i \in Items : phase[i] # "none" => phase'[i] # "none"
  BY DEF Lasting
<1>4. QED
  BY <1>1, <1>2, <1>3, InitKeeps, PTL DEF Spec, OverForGood, NeverForgotten

(* The same of the modules that use the queue.                             *)
THEOREM CallsAreSerial == CallSpec => []OneAtATime /\ OverForGood /\ NeverForgotten
<1>1. TypeOK /\ OneAtATime /\ [Call]_phase => TypeOK' /\ OneAtATime' /\ Lasting(phase, phase')
  BY CallKeeps
<1>2. Lasting(phase, phase') => \A i \in Items : phase[i] \in Over => phase'[i] \in Over
  BY DEF Lasting
<1>3. Lasting(phase, phase') => \A i \in Items : phase[i] # "none" => phase'[i] # "none"
  BY DEF Lasting
<1>4. QED
  BY <1>1, <1>2, <1>3, InitKeeps, PTL DEF CallSpec, OverForGood, NeverForgotten
=============================================================================
