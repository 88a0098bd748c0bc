-------------------------- MODULE CleanupLease_proofs --------------------------
(***************************************************************************)
(* Verified cleanup keeps its promises for any number of sessions, rules,  *)
(* addresses and faults, on every platform.  The properties share one      *)
(* inductive invariant, because each rests on the others: a listener stays *)
(* recorded because a record is only taken over from a session that is     *)
(* dead, and this is so because a helper judges the record under the lock  *)
(* and nobody changes it until the lock is dropped.                        *)
(***************************************************************************)
EXTENDS CleanupLease, FiniteSetTheorems, TLAPS

\* Steps of a worker that uses its lease; requests to sshd that open a listener or leave it open.
Using == {"listening", "backoff", "confirming", "serving", "closing"}
Opening == {"listen", "bound", "cancel", "kept"}
Begun == {s \in Sessions : worker[s] # "none"}

\* A session has a generation once it has begun, and a newer one only if it was retired.
Numbered(s) ==
  /\ worker[s] = "none" => gen[s] = 0 /\ ~linked[s]
  /\ worker[s] # "none" => gen[s] \in 1..saved[RuleOf[s]] /\ addr[s] \in Addresses
  /\ worker[s] \in {"none", "startup", "claiming", "listening", "backoff"} => refused[s] <= 2
  /\ \A t \in Siblings(s) : gen[s] < gen[t] => Retired(s)
Counted == \A r \in Rules : saved[r] <= Cardinality(Begun)

\* Worker and helper exchange one request at a time, until the worker waits no longer.
OneRequest(s) ==
  /\ want[s] # None => helper[s] \in {"input", "gone"} /\ reply[s] = None
  /\ helper[s] \in {"claim", "aim", "settle", "checked"} => want[s] = None /\ reply[s] = None
Quiet(s) == want[s] = None /\ reply[s] = None /\ helper[s] \in {"input", "gone"}

Exchange(s) ==
  /\ worker[s] \in {"none", "startup"} =>
       ask[s] = None /\ want[s] = None /\ reply[s] = None /\ helper[s] = "none"
  /\ worker[s] = "claiming" => ask[s] = None /\ want[s] \in {None, "claim"}
                               /\ OneRequest(s) /\ helper[s] # "none"
  /\ worker[s] = "listening" => ask[s] \in {"listen", "bound", "refused"} /\ Quiet(s)
  /\ worker[s] = "backoff" => ask[s] = "refused" /\ Quiet(s)
  /\ worker[s] = "confirming" =>
       /\ ask[s] = "bound" /\ want[s] \in {None, "confirm"} /\ OneRequest(s)
       /\ helper[s] \in {"input", "checked", "gone"}
  /\ worker[s] = "serving" => ask[s] = "bound"
  /\ worker[s] = "closing" => ask[s] \in {"cancel", "kept", "cancelled"}
  /\ want[s] = "release" =>
       worker[s] \in Ended \cup {"releasing", "closed"} /\ ask[s] \in {"refused", "cancelled"}

\* A record names a session of its rule, with that session's generation.
Recorded(r) ==
  record[r] # None =>
    /\ RuleOf[record[r].session] = r /\ worker[record[r].session] # "none"
    /\ record[r].gen = gen[record[r].session]

\* A helper that has judged the record keeps the lock and its judgement stays true.
Judgement(s) ==
  LET old == record[RuleOf[s]]
  IN  /\ helper[s] \in {"aim", "settle"} =>
           lock[RuleOf[s]] = s /\ (old # None => old.gen < gen[s])
      /\ helper[s] = "aim" => old # None
      /\ helper[s] = "settle" /\ old # None => ~Alive(old.session)

\* As long as its server process lives, a session that uses its lease is on record.
Confirmed(s) == Mine(s) /\ record[RuleOf[s]].phase = "confirmed"
Leased(s) ==
  Alive(s) =>
    /\ worker[s] \in Using \/ ask[s] \in Opening => Mine(s)
    /\ worker[s] = "claiming" /\ reply[s] = "ok" => Mine(s)
    /\ worker[s] = "confirming" /\ reply[s] = "ok" => Confirmed(s)
    /\ worker[s] = "serving" => Confirmed(s)

\* Only live processes listen, each because it was asked to.
Held(a) == holder[a] \in Sessions =>
             Alive(holder[a]) /\ ask[holder[a]] \in {"bound", "cancel", "kept"}
Bound(s) == ask[s] = "bound" /\ Alive(s) => holder[addr[s]] = s

IInv ==
  /\ TypeOK /\ Counted
  /\ \A s \in Sessions : /\ Numbered(s) /\ Exchange(s) /\ Judgement(s)
                         /\ Leased(s) /\ Bound(s)
  /\ \A r \in Rules : Recorded(r)
  /\ \A a \in Addresses : Held(a)
-----------------------------------------------------------------------------
(***************************************************************************)
(* What a step of one session leaves to be shown about the invariant.      *)
(***************************************************************************)
\* A step of a worker: only its own requests and answers change, and it keeps its place.
WorkerOnly(s) ==
  /\ UNCHANGED <<saved, gen, addr, record, lock, holder, sshd, helper>>
  /\ \A t \in Sessions \ {s} :
       /\ worker'[t] = worker[t] /\ stop'[t] = stop[t] /\ refused'[t] = refused[t]
       /\ linked'[t] = linked[t] /\ ask'[t] = ask[t] /\ want'[t] = want[t] /\ reply'[t] = reply[t]
WorkerKeeps(s) ==
  /\ worker[s] # "none" /\ worker'[s] # "none" /\ (Retired(s) => Retired(s)')
  /\ worker'[s] \in {"startup", "claiming", "listening", "backoff"} => refused'[s] <= 2
  /\ ask[s] \in {"bound", "cancel", "kept"} => ask'[s] \in {"bound", "cancel", "kept"}
  /\ ask'[s] = "bound" => ask[s] = "bound"

LEMMA EngineStep ==
  ASSUME IInv, TypeOK', NEW s \in Sessions, WorkerOnly(s), WorkerKeeps(s),
         Exchange(s)', Leased(s)'
  PROVE  IInv'
<1> USE LeaseAssumption DEF WorkerOnly, WorkerKeeps
<1>1. Counted'
  BY DEF IInv, TypeOK, Counted, Begun
<1>2. ASSUME NEW t \in Sessions PROVE Numbered(t)'
  <2>1. \A x \in Sessions : Retired(x) => Retired(x)'
    BY DEF Retired
  <2>2. QED
    BY <2>1 DEF IInv, Numbered, Siblings
<1>3. ASSUME NEW t \in Sessions PROVE Exchange(t)' /\ Leased(t)'
  BY DEF IInv, Exchange, OneRequest, Quiet, Leased, Alive, Mine, Confirmed
<1>4. ASSUME NEW t \in Sessions PROVE Judgement(t)' /\ Bound(t)'
  BY DEF IInv, TypeOK, Judgement, Bound, Alive
<1>5. ASSUME NEW r \in Rules PROVE Recorded(r)'
  BY DEF IInv, TypeOK, Recorded, Lease
<1>6. ASSUME NEW a \in Addresses PROVE Held(a)'
  BY DEF IInv, TypeOK, Held, Alive
<1> QED
  BY <1>1, <1>2, <1>3, <1>4, <1>5, <1>6 DEF IInv

\* A step of sshd: processes end and sockets close, records and helpers stay.
LEMMA ServerStep ==
  ASSUME IInv, TypeOK',
         UNCHANGED <<engine, record, lock, helper, want, reply>>,
         \A t \in Sessions : Alive(t)' => Alive(t),
         \A t \in Sessions : ask'[t] \in Opening => ask[t] \in Opening,
         \A t \in Sessions : Exchange(t)' /\ Bound(t)',
         \A a \in Addresses : Held(a)'
  PROVE  IInv'
<1> USE LeaseAssumption DEF engine
<1>1. Counted' /\ \A t \in Sessions : Numbered(t)'
  BY DEF IInv, TypeOK, Counted, Begun, Numbered, Siblings, Retired
<1>2. ASSUME NEW t \in Sessions PROVE Leased(t)'
  BY DEF IInv, Leased, Mine, Confirmed
<1>3. ASSUME NEW t \in Sessions PROVE Judgement(t)'
  BY DEF IInv, TypeOK, Judgement, Lease
<1>4. ASSUME NEW r \in Rules PROVE Recorded(r)'
  BY DEF IInv, Recorded
<1> QED
  BY <1>1, <1>2, <1>3, <1>4 DEF IInv

\* A step of a helper that writes no record and ends no session.
LEMMA HelperOnlyStep ==
  ASSUME IInv, TypeOK', NEW s \in Sessions,
         UNCHANGED <<engine, ask, record, holder, sshd>>,
         \A t \in Sessions \ {s} :
           helper'[t] = helper[t] /\ want'[t] = want[t] /\ reply'[t] = reply[t],
         \A t \in Sessions \ {s} : lock[RuleOf[t]] = t => lock'[RuleOf[t]] = t,
         Exchange(s)', Judgement(s)', Leased(s)'
  PROVE  IInv'
<1> USE LeaseAssumption DEF engine
<1>1. Counted' /\ \A t \in Sessions : Numbered(t)'
  BY DEF IInv, TypeOK, Counted, Begun, Numbered, Siblings, Retired
<1>2. ASSUME NEW t \in Sessions PROVE Exchange(t)' /\ Leased(t)'
  BY DEF IInv, Exchange, OneRequest, Quiet, Leased, Mine, Confirmed, Alive
<1>3. ASSUME NEW t \in Sessions PROVE Judgement(t)' /\ Bound(t)'
  BY DEF IInv, TypeOK, Judgement, Bound, Alive
<1>4. ASSUME NEW r \in Rules PROVE Recorded(r)'
  BY DEF IInv, Recorded
<1>5. ASSUME NEW a \in Addresses PROVE Held(a)'
  BY DEF IInv, Held, Alive
<1> QED
  BY <1>1, <1>2, <1>3, <1>4, <1>5 DEF IInv
-----------------------------------------------------------------------------
(***************************************************************************)
(* The worker.                                                             *)
(***************************************************************************)

LEMMA CancelSteps ==
  ASSUME IInv, NEW s \in Sessions, Cancel(s)
  PROVE  IInv'
<1> USE NobodyAssumption DEF Cancel, NoFault, fixed, server, wire
<1>1. TypeOK'
  BY DEF IInv, TypeOK
<1>2. Exchange(s)' /\ Leased(s)'
  BY DEF IInv, TypeOK, Exchange, OneRequest, Quiet, Leased, Alive, Mine, Confirmed
<1>3. WorkerOnly(s)
  BY DEF IInv, TypeOK, WorkerOnly
<1>4. WorkerKeeps(s)
  BY DEF IInv, TypeOK, WorkerKeeps, Numbered, Retired, Waiting, Ended
<1> QED
  BY <1>1, <1>2, <1>3, <1>4, EngineStep

LEMMA HelperFailsSteps ==
  ASSUME IInv, NEW s \in Sessions, HelperFails(s)
  PROVE  IInv'
<1> USE LeaseAssumption, NobodyAssumption
    DEF HelperFails, Moves, Failure, NeedsAttention, StateErrors, DetectErrors, UploadErrors,
        StartErrors, Faulty, Becomes, fixed, server, wire
<1>1. TypeOK'
  BY DEF IInv, TypeOK, Numbered, Waiting, Ended, Codes, Asks, Wants
<1>2. Exchange(s)'
  BY DEF IInv, TypeOK, Exchange, OneRequest, Quiet, Ended, Waiting, Codes, Asks, Wants, HelperPc
<1>3. Leased(s)'
  BY DEF IInv, TypeOK, Exchange, OneRequest, Quiet, Leased, Using, Opening, Alive, Mine, Confirmed,
         Ended, Waiting, Codes
<1>4. WorkerOnly(s)
  BY DEF IInv, TypeOK, WorkerOnly
<1>5. WorkerKeeps(s)
  BY DEF IInv, TypeOK, WorkerKeeps, Exchange, Numbered, Retired, Waiting, Ended, Asks
<1> QED
  BY <1>1, <1>2, <1>3, <1>4, <1>5, EngineStep

LEMMA AbandonClaimSteps ==
  ASSUME IInv, NEW s \in Sessions, AbandonClaim(s)
  PROVE  IInv'
<1> USE LeaseAssumption, NobodyAssumption
    DEF AbandonClaim, Moves, NoFault, Becomes, fixed, server, wire
<1>1. TypeOK'
  BY DEF IInv, TypeOK, Numbered, Waiting, Ended, Codes, Asks, Wants
<1>2. Exchange(s)'
  BY DEF IInv, TypeOK, Exchange, OneRequest, Quiet, Ended, Waiting, Codes, Asks, Wants, HelperPc
<1>3. Leased(s)'
  BY DEF IInv, TypeOK, Exchange, OneRequest, Quiet, Leased, Using, Opening, Alive, Mine, Confirmed,
         Ended, Waiting, Codes
<1>4. WorkerOnly(s)
  BY DEF IInv, TypeOK, WorkerOnly
<1>5. WorkerKeeps(s)
  BY DEF IInv, TypeOK, WorkerKeeps, Exchange, Numbered, Retired, Waiting, Ended, Asks
<1> QED
  BY <1>1, <1>2, <1>3, <1>4, <1>5, EngineStep

LEMMA ClaimAnsweredSteps ==
  ASSUME IInv, NEW s \in Sessions, ClaimAnswered(s)
  PROVE  IInv'
<1> USE LeaseAssumption, NobodyAssumption
    DEF ClaimAnswered, Request, Read, Failure, NeedsAttention, NoFault, Becomes, fixed, server, wire
<1>1. TypeOK'
  BY DEF IInv, TypeOK, Numbered, Waiting, Ended, Codes, Asks, Wants
<1>2. Exchange(s)'
  BY DEF IInv, TypeOK, Exchange, OneRequest, Quiet, Ended, Waiting, Codes, Asks, Wants, HelperPc
<1>3. Leased(s)'
  BY DEF IInv, TypeOK, Exchange, OneRequest, Quiet, Leased, Using, Opening, Alive, Mine, Confirmed,
         Ended, Waiting, Codes
<1>4. WorkerOnly(s)
  BY DEF IInv, TypeOK, WorkerOnly
<1>5. WorkerKeeps(s)
  BY DEF IInv, TypeOK, WorkerKeeps, Exchange, Numbered, Retired, Waiting, Ended, Asks
<1> QED
  BY <1>1, <1>2, <1>3, <1>4, <1>5, EngineStep

LEMMA ListenAcceptedSteps ==
  ASSUME IInv, NEW s \in Sessions, ListenAccepted(s)
  PROVE  IInv'
<1> USE LeaseAssumption, NobodyAssumption
    DEF ListenAccepted, Request, Tell, Ends, NoFault, Becomes, fixed, server, wire
<1>1. TypeOK'
  BY DEF IInv, TypeOK, Numbered, Waiting, Ended, Codes, Asks, Wants
<1>2. Exchange(s)'
  BY DEF IInv, TypeOK, Exchange, OneRequest, Quiet, Ended, Waiting, Codes, Asks, Wants, HelperPc
<1>3. Leased(s)'
  BY DEF IInv, TypeOK, Exchange, OneRequest, Quiet, Leased, Using, Opening, Alive, Mine, Confirmed,
         Ended, Waiting, Codes
<1>4. WorkerOnly(s)
  BY DEF IInv, TypeOK, WorkerOnly
<1>5. WorkerKeeps(s)
  BY DEF IInv, TypeOK, WorkerKeeps, Exchange, Numbered, Retired, Waiting, Ended, Asks
<1> QED
  BY <1>1, <1>2, <1>3, <1>4, <1>5, EngineStep

LEMMA ListenRefusedSteps ==
  ASSUME IInv, NEW s \in Sessions, ListenRefused(s)
  PROVE  IInv'
<1> USE LeaseAssumption, NobodyAssumption
    DEF ListenRefused, Tell, Ends, NoFault, Becomes, fixed, server, wire
<1>1. refused[s] \in 0..2 /\ worker[s] = "listening"
  BY DEF IInv, TypeOK, Numbered
<1>2. refused' \in [Sessions -> 0..3] /\ \A t \in Sessions \ {s} : refused'[t] = refused[t]
  BY <1>1 DEF IInv, TypeOK
<1>3. TypeOK'
  BY <1>2 DEF IInv, TypeOK, Waiting, Ended, Wants
<1>4. worker'[s] = "backoff" => refused'[s] <= 2
  BY <1>1, <1>2 DEF IInv, TypeOK
<1>5. Exchange(s)'
  BY DEF IInv, TypeOK, Exchange, OneRequest, Quiet, Ended, Waiting, Wants, HelperPc
<1>6. Leased(s)'
  BY DEF IInv, TypeOK, Exchange, Quiet, Leased, Using, Opening, Alive, Mine, Confirmed, Ended
<1>7. WorkerOnly(s)
  BY <1>1, <1>2, <1>3, <1>4, <1>5, <1>6 DEF IInv, TypeOK, WorkerOnly
<1>8. WorkerKeeps(s)
  BY <1>1, <1>2, <1>3, <1>4, <1>5, <1>6
  DEF IInv, TypeOK, WorkerKeeps, Exchange, Numbered, Retired, Waiting, Ended, Asks
<1> QED
  BY <1>1, <1>2, <1>3, <1>4, <1>5, <1>6, <1>7, <1>8, EngineStep

LEMMA BackoffEndsSteps ==
  ASSUME IInv, NEW s \in Sessions, BackoffEnds(s)
  PROVE  IInv'
<1> USE LeaseAssumption, NobodyAssumption
    DEF BackoffEnds, Request, Tell, Ends, NoFault, Becomes, fixed, server, wire
<1>1. TypeOK'
  BY DEF IInv, TypeOK, Numbered, Waiting, Ended, Codes, Asks, Wants
<1>2. Exchange(s)'
  BY DEF IInv, TypeOK, Exchange, OneRequest, Quiet, Ended, Waiting, Codes, Asks, Wants, HelperPc
<1>3. Leased(s)'
  BY DEF IInv, TypeOK, Exchange, OneRequest, Quiet, Leased, Using, Opening, Alive, Mine, Confirmed,
         Ended, Waiting, Codes
<1>4. WorkerOnly(s)
  BY DEF IInv, TypeOK, WorkerOnly
<1>5. WorkerKeeps(s)
  BY DEF IInv, TypeOK, WorkerKeeps, Exchange, Numbered, Retired, Waiting, Ended, Asks
<1> QED
  BY <1>1, <1>2, <1>3, <1>4, <1>5, EngineStep

LEMMA ConfirmAnsweredSteps ==
  ASSUME IInv, NEW s \in Sessions, ConfirmAnswered(s)
  PROVE  IInv'
<1> USE LeaseAssumption, NobodyAssumption
    DEF ConfirmAnswered, Request, Read, Ends, Failure, NeedsAttention, NoFault, Becomes, fixed,
        server, wire
<1>1. TypeOK'
  BY DEF IInv, TypeOK, Numbered, Waiting, Ended, Codes, Asks, Wants
<1>2. Exchange(s)'
  BY DEF IInv, TypeOK, Exchange, OneRequest, Quiet, Ended, Waiting, Codes, Asks, Wants, HelperPc
<1>3. Leased(s)'
  BY DEF IInv, TypeOK, Exchange, OneRequest, Quiet, Leased, Using, Opening, Alive, Mine, Confirmed,
         Ended, Waiting, Codes
<1>4. WorkerOnly(s)
  BY DEF IInv, TypeOK, WorkerOnly
<1>5. WorkerKeeps(s)
  BY DEF IInv, TypeOK, WorkerKeeps, Exchange, Numbered, Retired, Waiting, Ended, Asks
<1> QED
  BY <1>1, <1>2, <1>3, <1>4, <1>5, EngineStep

LEMMA StopServingSteps ==
  ASSUME IInv, NEW s \in Sessions, StopServing(s)
  PROVE  IInv'
<1> USE LeaseAssumption, NobodyAssumption
    DEF StopServing, Request, Ends, NoFault, Becomes, fixed, server, wire
<1>1. TypeOK'
  BY DEF IInv, TypeOK, Numbered, Waiting, Ended, Codes, Asks, Wants
<1>2. Exchange(s)'
  BY DEF IInv, TypeOK, Exchange, OneRequest, Quiet, Ended, Waiting, Codes, Asks, Wants, HelperPc
<1>3. Leased(s)'
  BY DEF IInv, TypeOK, Exchange, OneRequest, Quiet, Leased, Using, Opening, Alive, Mine, Confirmed,
         Ended, Waiting, Codes
<1>4. WorkerOnly(s)
  BY DEF IInv, TypeOK, WorkerOnly
<1>5. WorkerKeeps(s)
  BY DEF IInv, TypeOK, WorkerKeeps, Exchange, Numbered, Retired, Waiting, Ended, Asks
<1> QED
  BY <1>1, <1>2, <1>3, <1>4, <1>5, EngineStep

LEMMA HelperLostSteps ==
  ASSUME IInv, NEW s \in Sessions, HelperLost(s)
  PROVE  IInv'
<1> USE LeaseAssumption, NobodyAssumption
    DEF HelperLost, Moves, NoFault, Becomes, fixed, server, wire
<1>1. TypeOK'
  BY DEF IInv, TypeOK, Numbered, Waiting, Ended, Codes, Asks, Wants
<1>2. Exchange(s)'
  BY DEF IInv, TypeOK, Exchange, OneRequest, Quiet, Ended, Waiting, Codes, Asks, Wants, HelperPc
<1>3. Leased(s)'
  BY DEF IInv, TypeOK, Exchange, OneRequest, Quiet, Leased, Using, Opening, Alive, Mine, Confirmed,
         Ended, Waiting, Codes
<1>4. WorkerOnly(s)
  BY DEF IInv, TypeOK, WorkerOnly
<1>5. WorkerKeeps(s)
  BY DEF IInv, TypeOK, WorkerKeeps, Exchange, Numbered, Retired, Waiting, Ended, Asks
<1> QED
  BY <1>1, <1>2, <1>3, <1>4, <1>5, EngineStep

LEMMA ListenerCancelledSteps ==
  ASSUME IInv, NEW s \in Sessions, ListenerCancelled(s)
  PROVE  IInv'
<1> USE LeaseAssumption, NobodyAssumption
    DEF ListenerCancelled, Request, Tell, NoFault, Becomes, fixed, server, wire
<1>1. TypeOK'
  BY DEF IInv, TypeOK, Numbered, Waiting, Ended, Codes, Asks, Wants
<1>2. Exchange(s)'
  BY DEF IInv, TypeOK, Exchange, OneRequest, Quiet, Ended, Waiting, Codes, Asks, Wants, HelperPc
<1>3. Leased(s)'
  BY DEF IInv, TypeOK, Exchange, OneRequest, Quiet, Leased, Using, Opening, Alive, Mine, Confirmed,
         Ended, Waiting, Codes
<1>4. WorkerOnly(s)
  BY DEF IInv, TypeOK, WorkerOnly
<1>5. WorkerKeeps(s)
  BY DEF IInv, TypeOK, WorkerKeeps, Exchange, Numbered, Retired, Waiting, Ended, Asks
<1> QED
  BY <1>1, <1>2, <1>3, <1>4, <1>5, EngineStep

LEMMA ReleaseAnsweredSteps ==
  ASSUME IInv, NEW s \in Sessions, ReleaseAnswered(s)
  PROVE  IInv'
<1> USE LeaseAssumption, NobodyAssumption
    DEF ReleaseAnswered, Read, Compensating, Failure, NeedsAttention, NoFault, Becomes, fixed,
        server, wire
<1>1. TypeOK'
  BY DEF IInv, TypeOK, Numbered, Waiting, Ended, Codes, Asks, Wants
<1>2. Exchange(s)'
  BY DEF IInv, TypeOK, Exchange, OneRequest, Quiet, Ended, Waiting, Codes, Asks, Wants, HelperPc
<1>3. Leased(s)'
  BY DEF IInv, TypeOK, Exchange, OneRequest, Quiet, Leased, Using, Opening, Alive, Mine, Confirmed,
         Ended, Waiting, Codes
<1>4. WorkerOnly(s)
  BY DEF IInv, TypeOK, WorkerOnly
<1>5. WorkerKeeps(s)
  BY DEF IInv, TypeOK, WorkerKeeps, Exchange, Numbered, Retired, Waiting, Ended, Asks
<1> QED
  BY <1>1, <1>2, <1>3, <1>4, <1>5, EngineStep

LEMMA LeaseCutShortSteps ==
  ASSUME IInv, NEW s \in Sessions, LeaseCutShort(s)
  PROVE  IInv'
<1> USE LeaseAssumption, NobodyAssumption
    DEF LeaseCutShort, Ends, Compensating, Failure, NeedsAttention, Faulty, NoFault, Becomes, fixed,
        server, wire
<1>1. TypeOK'
  <2>1. /\ after[s] \in Ended
        /\ \A code \in {"timeout", "helper_unavailable"} : Failure(code) \in Ended
    BY DEF IInv, TypeOK, Ended
  <2>2. /\ worker' \in [Sessions -> Waiting \cup Ended \cup {"none", "closed"}]
        /\ after' \in [Sessions -> Ended] /\ ask' \in [Sessions -> Asks \cup {None}]
    BY <2>1 DEF IInv, TypeOK, Waiting, Asks
  <2>3. faults' \in 0..MaxFaults
    BY DEF IInv, TypeOK
  <2> QED
    BY <2>2, <2>3 DEF IInv, TypeOK
<1>2. Exchange(s)'
  BY DEF IInv, TypeOK, Exchange, OneRequest, Quiet, Ended, Waiting, Codes, Asks, Wants, HelperPc
<1>3. Leased(s)'
  BY DEF IInv, TypeOK, Exchange, OneRequest, Quiet, Leased, Using, Opening, Alive, Mine, Confirmed,
         Ended, Waiting, Codes
<1>4. WorkerOnly(s)
  BY DEF IInv, TypeOK, WorkerOnly
<1>5. WorkerKeeps(s)
  BY DEF IInv, TypeOK, WorkerKeeps, Exchange, Numbered, Retired, Waiting, Ended, Asks
<1> QED
  BY <1>1, <1>2, <1>3, <1>4, <1>5, EngineStep

LEMMA CutOffSteps ==
  ASSUME IInv, NEW s \in Sessions, HangUp(s) \/ Lose(s)
  PROVE  IInv'
<1> USE LeaseAssumption, NobodyAssumption
<1>1. linked[s] /\ CutOff(s) /\ faults' = faults
  BY DEF HangUp, Lose, NoFault
<1>2. TypeOK'
  BY <1>1 DEF IInv, TypeOK, CutOff, Becomes, Ends, fixed, server, Ended
<1>3. /\ UNCHANGED <<saved, gen, addr, ask, want, server>>
      /\ worker[s] # "none" /\ worker'[s] = "closed" /\ reply'[s] = None
      /\ \A t \in Sessions \ {s} :
           /\ worker'[t] = worker[t] /\ stop'[t] = stop[t] /\ refused'[t] = refused[t]
           /\ linked'[t] = linked[t] /\ reply'[t] = reply[t]
  BY <1>1 DEF IInv, TypeOK, Numbered, CutOff, Becomes, Ends
<1>4. Exchange(s)' /\ Leased(s)'
  BY <1>3 DEF IInv, TypeOK, Exchange, Leased, Using, Alive, Mine, Ended, server
<1>5. WorkerOnly(s)
  BY <1>3 DEF WorkerOnly, server
<1>6. WorkerKeeps(s)
  BY <1>3 DEF WorkerKeeps, Retired
<1> QED
  BY <1>1, <1>2, <1>3, <1>4, <1>5, <1>6, EngineStep

\* A new session takes a new generation, the newest of its rule.
LEMMA ReserveSteps ==
  ASSUME IInv, NEW s \in Sessions, Reserve(s)
  PROVE  IInv'
<1> USE LeaseAssumption, NobodyAssumption
<1>1. /\ worker[s] = "none" /\ gen[s] = 0 /\ RuleOf[s] \in Rules
      /\ \A t \in Siblings(s) : Retired(t)
      /\ saved' = [saved EXCEPT ![RuleOf[s]] = @ + 1] /\ gen'[s] = saved[RuleOf[s]] + 1
      /\ worker'[s] = "startup" /\ addr'[s] \in Addresses /\ linked'[s] /\ sshd'[s] = "up"
      /\ \A t \in Sessions \ {s} : gen'[t] = gen[t] /\ addr'[t] = addr[t] /\ worker'[t] = worker[t]
                                   /\ sshd'[t] = sshd[t] /\ linked'[t] = linked[t]
      /\ UNCHANGED <<fixed, stop, after, refused, record, lock, holder, helper, wire, faults>>
  BY DEF Reserve, Becomes, NoFault, IInv, TypeOK, Numbered
<1>2. TypeOK'
  <2>1. /\ saved[RuleOf[s]] + 1 \in Nat
        /\ saved' \in [Rules -> Nat] /\ gen' \in [Sessions -> Nat]
    BY <1>1 DEF IInv, TypeOK, Reserve
  <2>2. addr' \in [Sessions -> Addresses \cup {None}]
    BY DEF IInv, TypeOK, Reserve
  <2>3. worker' \in [Sessions -> Waiting \cup Ended \cup {"none", "closed"}]
    BY DEF IInv, TypeOK, Reserve, Becomes, Waiting
  <2>4. /\ linked' \in [Sessions -> BOOLEAN]
        /\ sshd' \in [Sessions -> {"none", "up", "deaf", "gone"}]
    BY DEF IInv, TypeOK, Reserve
  <2> QED
    BY <1>1, <2>1, <2>2, <2>3, <2>4 DEF IInv, TypeOK, fixed, wire
<1>3. Counted'
  <2>1. IsFiniteSet(Begun) /\ s \notin Begun /\ Begun' = Begun \cup {s}
    BY <1>1, FS_Subset DEF Begun
  <2>2. Cardinality(Begun) \in Nat /\ Cardinality(Begun') = Cardinality(Begun) + 1
    BY <2>1, FS_AddElement, FS_CardinalityType
  <2> QED
    BY <1>1, <2>2 DEF IInv, TypeOK, Counted
<1>4. ASSUME NEW t \in Sessions PROVE Numbered(t)'
  <2>1. \A x \in Sessions \ {s} : saved[RuleOf[x]] \in Nat /\ gen[x] \in 0..saved[RuleOf[x]]
    BY DEF IInv, TypeOK, Numbered
  <2>2. \A x \in Sessions : x # s => (Retired(x) <=> Retired(x)')
    BY <1>1 DEF Retired
  <2>3. CASE t = s
    BY <1>1, <2>1, <2>3 DEF IInv, TypeOK, Numbered, Siblings
  <2>4. CASE t # s
    <3>1. t \in Siblings(s) => Retired(t)'
      BY <1>1, <2>2, <2>4
    <3>2. s \in Siblings(t) => t \in Siblings(s)
      BY DEF Siblings
    <3>3. \A x \in Siblings(t)' : gen'[t] < gen'[x] => Retired(t)'
      BY <1>1, <2>2, <2>4, <3>1, <3>2 DEF IInv, Numbered, Siblings
    <3> QED
      BY <1>1, <2>4, <3>3 DEF IInv, TypeOK, Numbered
  <2> QED
    BY <2>3, <2>4
<1>5. ASSUME NEW r \in Rules PROVE Recorded(r)'
  BY <1>1 DEF IInv, TypeOK, Recorded, Lease
<1>6. ASSUME NEW t \in Sessions PROVE Exchange(t)'
  BY <1>1 DEF IInv, Exchange, OneRequest, Quiet, wire
<1>7. ASSUME NEW t \in Sessions PROVE Judgement(t)'
  <2>1. helper[t] \in {"aim", "settle"} => t # s
    BY <1>1 DEF IInv, Exchange
  <2>2. record[RuleOf[t]] # None => record[RuleOf[t]].session \in Sessions \ {s}
    BY <1>1 DEF IInv, TypeOK, Recorded, Lease
  <2> QED
    BY <1>1, <2>1, <2>2 DEF IInv, Judgement, Alive
<1>8. ASSUME NEW t \in Sessions PROVE Leased(t)' /\ Bound(t)'
  BY <1>1
  DEF IInv, Exchange, Leased, Bound, Using, Opening, Asks, Wants, Codes, Alive, Mine, Confirmed,
      wire
<1>9. ASSUME NEW a \in Addresses PROVE Held(a)'
  BY <1>1 DEF IInv, Held, Alive, wire
<1> QED
  BY <1>2, <1>3, <1>4, <1>5, <1>6, <1>7, <1>8, <1>9 DEF IInv

LEMMA HelperStartsSteps ==
  ASSUME IInv, NEW s \in Sessions, HelperStarts(s)
  PROVE  IInv'
<1> USE LeaseAssumption, NobodyAssumption
<1>1. /\ worker[s] = "startup" /\ worker'[s] = "claiming" /\ helper'[s] = "input"
      /\ want'[s] = "claim" /\ Becomes(s, "claiming")
      /\ \A t \in Sessions \ {s} : worker'[t] = worker[t] /\ helper'[t] = helper[t]
                                   /\ want'[t] = want[t]
      /\ UNCHANGED <<fixed, saved, gen, addr, stop, after, refused, linked, record, lock, holder,
                     sshd, ask, reply, faults>>
  BY DEF HelperStarts, Becomes, NoFault, IInv, TypeOK
<1>2. TypeOK'
  BY DEF IInv, TypeOK, HelperStarts, Becomes, NoFault, Waiting, HelperPc, Wants, fixed
<1>3. Counted'
  <2>1. Begun' = Begun
    BY <1>1 DEF Begun
  <2> QED
    BY <1>1, <2>1 DEF IInv, Counted
<1>4. ASSUME NEW t \in Sessions PROVE Numbered(t)'
  <2>1. \A x \in Sessions : Retired(x) => Retired(x)'
    BY <1>1 DEF Retired
  <2> QED
    BY <1>1, <2>1 DEF IInv, Numbered, Siblings
<1>5. ASSUME NEW t \in Sessions PROVE Exchange(t)' /\ Judgement(t)'
  BY <1>1 DEF IInv, TypeOK, Exchange, OneRequest, Quiet, Judgement, Alive
<1>6. ASSUME NEW t \in Sessions PROVE Leased(t)' /\ Bound(t)'
  BY <1>1
  DEF IInv, Exchange, Leased, Bound, Using, Opening, Asks, Wants, Codes, Alive, Mine, Confirmed
<1>7. ASSUME NEW r \in Rules PROVE Recorded(r)'
  BY <1>1 DEF IInv, TypeOK, Recorded, Lease
<1>8. ASSUME NEW a \in Addresses PROVE Held(a)'
  BY <1>1 DEF IInv, Held, Alive
<1> QED
  BY <1>2, <1>3, <1>4, <1>5, <1>6, <1>7, <1>8 DEF IInv
-----------------------------------------------------------------------------
(***************************************************************************)
(* The server.                                                             *)
(***************************************************************************)
\* A session that has asked sshd for something has an address.
LEMMA Addressed ==
  ASSUME IInv, NEW s \in Sessions, ask[s] # None
  PROVE  addr[s] \in Addresses
BY DEF IInv, TypeOK, Numbered, Exchange

LEMMA SshdSteps ==
  ASSUME IInv, NEW s \in Sessions, Listens(s) \/ StopsListening(s)
  PROVE  IInv'
<1> USE LeaseAssumption, NobodyAssumption
    DEF Listens, StopsListening, ServerOnly, NoFault, Faulty, FreedFrom
<1>1. TypeOK'
  BY DEF IInv, TypeOK, engine, fixed, Asks
<1>2. /\ ask[s] \in {"listen", "cancel"} /\ ask'[s] \in {"bound", "refused", "cancelled", "kept"}
      /\ ask[s] = "listen" => ask'[s] \in {"bound", "refused"}
      /\ ask[s] = "cancel" => ask'[s] \in {"cancelled", "kept"}
      /\ \A t \in Sessions \ {s} : ask'[t] = ask[t]
      /\ UNCHANGED <<worker, helper, want, reply, sshd, addr>>
  BY DEF IInv, TypeOK, engine
<1>3. ASSUME NEW t \in Sessions PROVE Exchange(t)'
  BY <1>2 DEF IInv, Exchange, OneRequest, Quiet, Asks
<1>4. ASSUME NEW t \in Sessions PROVE Bound(t)'
  <2>1. ask'[t] = "bound" => addr[t] \in Addresses
    BY <1>2, Addressed DEF Asks
  <2>2. CASE Listens(s)
    BY <1>2, <2>1, <2>2 DEF IInv, TypeOK, Bound, Alive
  <2>3. CASE StopsListening(s)
    BY <1>2, <2>1, <2>3 DEF IInv, TypeOK, Bound, Alive
  <2> QED
    BY <2>2, <2>3
<1>5. ASSUME NEW a \in Addresses PROVE Held(a)'
  BY DEF IInv, TypeOK, Held, Alive, engine
<1> QED
  BY <1>1, <1>2, <1>3, <1>4, <1>5, ServerStep DEF Alive, Opening

LEMMA NoticesSteps ==
  ASSUME IInv, NEW s \in Sessions, Notices(s)
  PROVE  IInv'
<1> USE LeaseAssumption DEF Notices, ServerOnly, NoFault
<1>1. TypeOK'
  BY DEF IInv, TypeOK, engine, fixed
<1>2. \A t \in Sessions : Exchange(t)' /\ Bound(t)'
  BY DEF IInv, TypeOK, Exchange, OneRequest, Quiet, Bound, Alive, engine
<1>3. \A a \in Addresses : Held(a)'
  BY DEF IInv, TypeOK, Held, Alive
<1> QED
  BY <1>1, <1>2, <1>3, ServerStep DEF IInv, TypeOK, Alive

LEMMA ExitsSteps ==
  ASSUME IInv, NEW s \in Sessions, Exits(s)
  PROVE  IInv'
<1> USE LeaseAssumption, NobodyAssumption DEF Exits, ServerOnly, NoFault, Faulty, FreedFrom
<1>1. TypeOK'
  BY DEF IInv, TypeOK, engine, fixed
<1>2. ASSUME NEW t \in Sessions PROVE Exchange(t)'
  BY DEF IInv, Exchange, OneRequest, Quiet, engine
<1>3. ASSUME NEW t \in Sessions PROVE Bound(t)'
  <2>1. ask[t] = "bound" => addr[t] \in Addresses
    BY Addressed DEF Asks
  <2> QED
    BY <2>1 DEF IInv, TypeOK, Bound, Alive, engine
<1>4. \A a \in Addresses : Held(a)'
  BY DEF IInv, TypeOK, Held, Alive
<1> QED
  BY <1>1, <1>2, <1>3, <1>4, ServerStep DEF IInv, TypeOK, Alive

LEMMA OtherProgramSteps ==
  ASSUME IInv, NEW a \in Addresses, OtherProgram(a)
  PROVE  IInv'
<1> USE LeaseAssumption, NobodyAssumption DEF OtherProgram, ServerOnly, NoFault, Faulty
<1>1. TypeOK'
  BY DEF IInv, TypeOK, engine, fixed
<1>2. ASSUME NEW t \in Sessions PROVE Exchange(t)'
  BY DEF IInv, Exchange, OneRequest, Quiet, engine
<1>3. ASSUME NEW t \in Sessions PROVE Bound(t)'
  <2>1. ask[t] = "bound" => addr[t] \in Addresses
    BY Addressed DEF Asks
  <2> QED
    BY <2>1 DEF IInv, TypeOK, Bound, Alive, engine
<1>4. \A x \in Addresses : Held(x)'
  BY DEF IInv, TypeOK, Held, Alive
<1> QED
  BY <1>1, <1>2, <1>3, <1>4, ServerStep DEF Alive
-----------------------------------------------------------------------------
(***************************************************************************)
(* The helper.                                                             *)
(***************************************************************************)
\* Every platform refuses a claim that is not newer than the record, and leaves a record as
\* no obstacle only if its session is dead.
LEMMA Verdicts ==
  ASSUME TypeOK, NEW s \in Sessions, NEW old \in Lease
  PROVE  /\ Verdict(s, old) \in Codes \cup {"clear", "end"} /\ Verdict(s, old) # "ok"
         /\ Verdict(s, old) \in {"clear", "end"} => old.gen < gen[s]
         /\ Verdict(s, old) = "clear" => ~Alive(old.session)
<1> USE LeaseAssumption
<1>1. platform \in {"linux", "macos", "windows", "python"} /\ old.gen \in Nat /\ gen[s] \in Nat
  BY DEF TypeOK, Lease
<1> DEFINE Good(v) == /\ v \in {"ownership_mismatch", "superseded", "unmanaged_conflict",
                                "clear", "end"}
                      /\ v \in {"clear", "end"} => old.gen < gen[s]
                      /\ v = "clear" => ~Alive(old.session)
<1>2. Good(LinuxVerdict(s, old))
  BY <1>1 DEF LinuxVerdict
<1>3. Good(WindowsVerdict(s, old))
  BY <1>1 DEF WindowsVerdict
<1>4. Good(PythonVerdict(s, old))
  BY <1>1 DEF PythonVerdict
<1>5. Good(Verdict(s, old))
  BY <1>1, <1>2, <1>3, <1>4 DEF Verdict, MacVerdict
<1> QED
  BY <1>5 DEF Codes

\* An old session counts as gone by itself only if it is.
LEMMA PinsAre ==
  ASSUME TypeOK, NEW old \in Lease
  PROVE  /\ Pins(old) \subseteq {"ended", "clear", "permission_denied", "unmanaged_conflict"}
         /\ "clear" \in Pins(old) => ~Alive(old.session)
<1>1. platform \in {"linux", "macos", "windows", "python"}
  BY LeaseAssumption DEF TypeOK
<1>2. PythonPins(old) \subseteq {"ended", "clear", "permission_denied", "unmanaged_conflict"}
      /\ ("clear" \in PythonPins(old) => ~Alive(old.session))
  BY DEF PythonPins
<1>3. /\ LinuxPins(old) \subseteq {"ended", "permission_denied"}
      /\ WindowsPins(old) \subseteq {"ended", "permission_denied", "unmanaged_conflict"}
  BY DEF LinuxPins, WindowsPins
<1> QED
  BY <1>1, <1>2, <1>3 DEF Pins, MacPins

\* A helper that does not take a request, or is refused, only answers.
LEMMA AnswerStep ==
  ASSUME IInv, NEW s \in Sessions, NEW code \in Codes \ {"ok"},
         helper[s] \notin {"none", "gone"}, HelperOnly, UNCHANGED <<record, holder, sshd>>,
         Replies(s, code), Goes(s, "input"), faults' \in 0..MaxFaults,
         \/ want' = want /\ helper[s] # "input"
         \/ \E what \in Wants : Takes(s, what),
         \/ lock' = lock
         \/ Unlocks(s) /\ lock[RuleOf[s]] \in {s, None}
  PROVE  IInv'
<1> USE LeaseAssumption, NobodyAssumption DEF HelperOnly, Replies, Goes, Takes, Unlocks
<1>1. TypeOK'
  BY DEF IInv, TypeOK, HelperPc, engine, fixed
<1>2. Exchange(s)'
  BY DEF IInv, TypeOK, Exchange, OneRequest, Quiet, engine, Wants
<1>3. Judgement(s)'
  BY DEF IInv, TypeOK, Judgement
<1>4. Leased(s)'
  <2>1. reply'[s] # "ok"
    BY DEF IInv, TypeOK, Codes
  <2>2. UNCHANGED <<worker, ask, gen, record, sshd>>
    BY DEF engine
  <2> QED
    BY <2>1, <2>2 DEF IInv, Leased, Alive, Mine, Confirmed
<1>5. ASSUME NEW t \in Sessions \ {s}, lock[RuleOf[t]] = t PROVE lock'[RuleOf[t]] = t
  <2>1. RuleOf[t] \in Rules /\ RuleOf[s] \in Rules /\ t # None
    OBVIOUS
  <2> QED
    BY <1>5, <2>1 DEF IInv, TypeOK
<1>6. \A t \in Sessions \ {s} :
        helper'[t] = helper[t] /\ want'[t] = want[t] /\ reply'[t] = reply[t]
  BY DEF IInv, TypeOK
<1> QED
  BY <1>1, <1>2, <1>3, <1>4, <1>5, <1>6, HelperOnlyStep

\* A fault that happens keeps the count in its bound.
LEMMA FaultsBounded ==
  ASSUME TypeOK, Faulty \/ NoFault
  PROVE  faults' \in 0..MaxFaults
BY LeaseAssumption DEF TypeOK, Faulty, NoFault

LEMMA IdentifySteps ==
  ASSUME IInv, NEW s \in Sessions, Identify(s)
  PROVE  IInv'
<1> USE LeaseAssumption, NobodyAssumption
<1>1. CASE Transport(s)
  <2> USE <1>1 DEF Identify, HelperOnly, Goes, Takes, NoFault
  <2>1. TypeOK'
    BY DEF IInv, TypeOK, HelperPc, engine, fixed
  <2>2. Exchange(s)'
    BY DEF IInv, TypeOK, Exchange, OneRequest, Quiet, engine, Wants
  <2>3. Judgement(s)' /\ Leased(s)'
    BY DEF IInv, TypeOK, Judgement, Leased, Alive, Mine, Confirmed, engine
  <2> QED
    BY <2>1, <2>2, <2>3, HelperOnlyStep DEF IInv, TypeOK
<1>2. CASE ~Transport(s)
  <2>1. Goes(s, "input") /\ Takes(s, "claim")
    BY <1>2 DEF Identify, Goes, Takes, IInv, TypeOK
  <2> QED
    BY <1>2, <2>1, FaultsBounded, AnswerStep DEF Identify, Takes, IInv, Codes, Wants
<1> QED
  BY <1>1, <1>2

LEMMA JudgeSteps ==
  ASSUME IInv, NEW s \in Sessions, Judge(s)
  PROVE  IInv'
<1> USE LeaseAssumption, NobodyAssumption
<1> DEFINE old == record[RuleOf[s]]
<1>1. /\ helper[s] = "claim" /\ lock[RuleOf[s]] = None /\ HelperOnly
      /\ UNCHANGED <<record, holder, sshd, want, faults>>
  BY DEF Judge, Judging, Free, NoFault
<1>2. old \in Lease \cup {None} /\ RuleOf[s] \in Rules
  BY DEF IInv, TypeOK
<1>3. /\ Judged(s) \in Codes \cup {"clear", "end"} /\ Judged(s) # "ok"
      /\ Judged(s) \in {"clear", "end"} /\ old # None => old.gen < gen[s]
      /\ Judged(s) = "clear" /\ old # None => ~Alive(old.session)
      /\ Judged(s) = "end" => old # None
  BY <1>2, Verdicts DEF Judged, IInv
<1>4. CASE Judged(s) \in {"clear", "end"}
  <2>1. PICK pc \in {"settle", "aim"} :
          /\ Goes(s, pc) /\ KeepsLock(s)
          /\ pc = "settle" <=> Judged(s) = "clear"
    BY <1>4 DEF Judge
  <2> USE <1>1, <2>1 DEF HelperOnly, Goes, KeepsLock
  <2>2. TypeOK'
    BY DEF IInv, TypeOK, HelperPc, engine, fixed
  <2>3. Exchange(s)'
    BY DEF IInv, TypeOK, Exchange, OneRequest, Quiet, engine
  <2>4. Judgement(s)'
    BY <1>3, <1>4 DEF IInv, TypeOK, Judgement, Alive, engine
  <2>5. Leased(s)'
    BY DEF IInv, TypeOK, Leased, Alive, Mine, Confirmed, engine
  <2>6. \A t \in Sessions \ {s} : lock[RuleOf[t]] = t => lock'[RuleOf[t]] = t
    BY DEF IInv, TypeOK
  <2> QED
    BY <2>2, <2>3, <2>4, <2>5, <2>6, HelperOnlyStep DEF IInv, TypeOK
<1>5. CASE Judged(s) \notin {"clear", "end"}
  <2>1. Refuses(s, Judged(s)) /\ Judged(s) \in Codes \ {"ok"}
    BY <1>3, <1>5 DEF Judge
  <2> QED
    BY <1>1, <2>1, AnswerStep DEF Refuses, IInv, TypeOK
<1> QED
  BY <1>4, <1>5

\* Before its lock is dropped, a helper leaves the judged session dead, or is refused.
LEMMA EndOldSteps ==
  ASSUME IInv, NEW s \in Sessions, EndOld(s)
  PROVE  IInv'
<1> USE LeaseAssumption, NobodyAssumption
<1> DEFINE old == record[RuleOf[s]]
<1>1. /\ helper[s] = "aim" /\ lock[RuleOf[s]] = s /\ old \in Lease /\ old.gen < gen[s]
      /\ RuleOf[s] \in Rules /\ HelperOnly /\ UNCHANGED <<record, want>>
  BY DEF EndOld, IInv, TypeOK, Judgement
<1>2. PICK outcome \in Pins(old) :
        /\ Faulty \/ NoFault
        /\ IF outcome = "ended"
           THEN sshd' = [sshd EXCEPT ![old.session] = "gone"] /\ holder' = FreedFrom(old.session)
           ELSE UNCHANGED <<sshd, holder>>
        /\ IF outcome \in {"ended", "clear"} THEN Goes(s, "settle") /\ UNCHANGED <<lock, reply>>
           ELSE Refuses(s, outcome)
  BY DEF EndOld
<1>3. /\ outcome \in {"ended", "clear", "permission_denied", "unmanaged_conflict"}
      /\ outcome = "clear" => ~Alive(old.session)
      /\ faults' \in 0..MaxFaults
  BY <1>1, <1>2, PinsAre, FaultsBounded DEF IInv
<1>4. CASE outcome = "ended"
  <2>1. /\ sshd' = [sshd EXCEPT ![old.session] = "gone"] /\ holder' = FreedFrom(old.session)
        /\ helper' = [helper EXCEPT ![s] = "settle"]
        /\ UNCHANGED <<lock, reply, record, want, ask, engine, fixed>>
        /\ old.session \in Sessions
    BY <1>1, <1>2, <1>4 DEF Goes, HelperOnly, Lease
  <2>2. TypeOK'
    BY <2>1, <1>3 DEF IInv, TypeOK, HelperPc, engine, fixed, FreedFrom
  <2>3. \A t \in Sessions : Alive(t)' => Alive(t) /\ t # old.session
    BY <2>1 DEF IInv, TypeOK, Alive
  <2>4. Counted' /\ \A t \in Sessions : Numbered(t)'
    BY <2>1 DEF IInv, TypeOK, Counted, Begun, Numbered, Siblings, Retired, engine
  <2>5. ASSUME NEW t \in Sessions PROVE Exchange(t)'
    BY <1>1, <2>1 DEF IInv, TypeOK, Exchange, OneRequest, Quiet, engine
  <2>6. ASSUME NEW t \in Sessions PROVE Judgement(t)'
    BY <1>1, <2>1, <2>3 DEF IInv, TypeOK, Judgement, engine, Lease
  <2>7. ASSUME NEW t \in Sessions PROVE Leased(t)'
    BY <2>1, <2>3 DEF IInv, TypeOK, Leased, Mine, Confirmed, engine
  <2>8. ASSUME NEW t \in Sessions PROVE Bound(t)'
    <3>1. ask[t] = "bound" => addr[t] \in Addresses
      BY Addressed DEF Asks
    <3> QED
      BY <2>1, <2>3, <3>1 DEF IInv, TypeOK, Bound, FreedFrom, engine
  <2>9. \A r \in Rules : Recorded(r)'
    BY <2>1 DEF IInv, Recorded, engine
  <2>10. \A a \in Addresses : Held(a)'
    BY <2>1 DEF IInv, TypeOK, Held, Alive, FreedFrom
  <2> QED
    BY <2>2, <2>4, <2>5, <2>6, <2>7, <2>8, <2>9, <2>10 DEF IInv
<1>5. CASE outcome = "clear"
  <2> USE <1>1, <1>2, <1>3, <1>5 DEF HelperOnly, Goes
  <2>1. TypeOK'
    BY DEF IInv, TypeOK, HelperPc, engine, fixed
  <2>2. Exchange(s)'
    BY DEF IInv, TypeOK, Exchange, OneRequest, Quiet, engine
  <2>3. Judgement(s)' /\ Leased(s)'
    BY DEF IInv, TypeOK, Judgement, Leased, Alive, Mine, Confirmed, engine
  <2> QED
    BY <2>1, <2>2, <2>3, HelperOnlyStep DEF IInv, TypeOK
<1>6. CASE outcome \notin {"ended", "clear"}
  <2>1. Refuses(s, outcome) /\ outcome \in Codes \ {"ok"} /\ UNCHANGED <<sshd, holder>>
    BY <1>2, <1>3, <1>6 DEF Codes
  <2> QED
    BY <1>1, <1>3, <2>1, AnswerStep DEF Refuses, IInv, TypeOK
<1> QED
  BY <1>4, <1>5, <1>6

\* A step of a helper that holds the lock or finds it free, and may write the rule's record
\* for its own session.
LEMMA RecordStep ==
  ASSUME IInv, TypeOK', NEW s \in Sessions,
         UNCHANGED <<engine, ask, holder, sshd>>, worker[s] # "none",
         helper'[s] = "input", Exchange(s)',
         \A t \in Sessions \ {s} :
           helper'[t] = helper[t] /\ reply'[t] = reply[t] /\ want'[t] = want[t],
         \A r \in Rules \ {RuleOf[s]} : record'[r] = record[r] /\ lock'[r] = lock[r],
         lock[RuleOf[s]] \in {s, None}, record'[RuleOf[s]] # None,
         record'[RuleOf[s]].session = s, record'[RuleOf[s]].gen = gen[s],
         \A t \in Sessions \ {s} : Alive(t) /\ RuleOf[t] = RuleOf[s] => ~Mine(t),
         Alive(s) /\ worker[s] \in {"confirming", "serving"} => Confirmed(s)'
  PROVE  IInv'
<1> USE LeaseAssumption, NobodyAssumption DEF engine
<1>1. Counted' /\ \A t \in Sessions : Numbered(t)'
  BY DEF IInv, TypeOK, Counted, Begun, Numbered, Siblings, Retired
<1>2. ASSUME NEW t \in Sessions PROVE Exchange(t)'
  BY DEF IInv, Exchange, OneRequest, Quiet
<1>3. ASSUME NEW t \in Sessions PROVE Judgement(t)'
  <2>1. RuleOf[t] \in Rules /\ RuleOf[s] \in Rules /\ t # None
    OBVIOUS
  <2>2. helper'[t] \in {"aim", "settle"} => t # s /\ RuleOf[t] # RuleOf[s]
    BY <2>1 DEF IInv, Judgement
  <2> QED
    BY <2>1, <2>2 DEF IInv, Judgement, Alive
<1>4. ASSUME NEW t \in Sessions PROVE Leased(t)'
  <2>1. RuleOf[t] \in Rules /\ RuleOf[s] \in Rules
    OBVIOUS
  <2>2. CASE t = s
    BY <2>1, <2>2 DEF Leased, Mine, Alive
  <2>3. CASE t # s /\ RuleOf[t] = RuleOf[s]
    BY <2>1, <2>3 DEF IInv, Leased, Alive, Confirmed
  <2>4. CASE RuleOf[t] # RuleOf[s]
    BY <2>1, <2>4 DEF IInv, Leased, Alive, Mine, Confirmed
  <2> QED
    BY <2>2, <2>3, <2>4
<1>5. ASSUME NEW r \in Rules PROVE Recorded(r)'
  BY DEF IInv, Recorded
<1>6. (\A t \in Sessions : Bound(t)') /\ \A a \in Addresses : Held(a)'
  BY DEF IInv, Bound, Held, Alive
<1> QED
  BY <1>1, <1>2, <1>3, <1>4, <1>5, <1>6 DEF IInv

\* The claim is recorded when the session it was judged against is dead.
LEMMA SettleSteps ==
  ASSUME IInv, NEW s \in Sessions, Settle(s)
  PROVE  IInv'
<1> USE LeaseAssumption, NobodyAssumption
<1> DEFINE old == record[RuleOf[s]]
           new == [session |-> s, gen |-> gen[s], addr |-> addr[s], phase |-> "claimed"]
<1>1. /\ helper[s] = "settle" /\ lock[RuleOf[s]] = s /\ RuleOf[s] \in Rules
      /\ HelperOnly /\ UNCHANGED <<holder, sshd, want>>
      /\ old # None => old.gen < gen[s] /\ ~Alive(old.session)
      /\ worker[s] # "none" /\ new \in Lease
  BY DEF Settle, IInv, TypeOK, Judgement, Exchange, Numbered, Lease, Phases
<1>2. \/ \E code \in {"unmanaged_conflict", "io_error"} :
           Refuses(s, code) /\ UNCHANGED record /\ (Faulty \/ NoFault)
      \/ \E code \in {"ok", "io_error"} :
           Refuses(s, code) /\ (Faulty \/ NoFault) /\ record' = [record EXCEPT ![RuleOf[s]] = new]
  BY DEF Settle, Writes
<1>3. CASE \E code \in {"unmanaged_conflict", "io_error"} :
             Refuses(s, code) /\ UNCHANGED record /\ (Faulty \/ NoFault)
  BY <1>1, <1>3, AnswerStep, FaultsBounded DEF IInv, Refuses, Codes
<1>4. ASSUME NEW code \in {"ok", "io_error"}, Refuses(s, code), Faulty \/ NoFault,
             record' = [record EXCEPT ![RuleOf[s]] = new]
      PROVE  IInv'
  <2>1. faults' \in 0..MaxFaults
    BY <1>4, FaultsBounded DEF IInv
  <2>2. /\ UNCHANGED <<engine, ask, holder, sshd, want>>
        /\ helper' = [helper EXCEPT ![s] = "input"] /\ lock' = [lock EXCEPT ![RuleOf[s]] = None]
        /\ reply' = [reply EXCEPT ![s] = IF linked[s] THEN code ELSE None] /\ UNCHANGED fixed
    BY <1>1, <1>4 DEF HelperOnly, Refuses, Replies, Goes, Unlocks
  <2>3. TypeOK'
    BY <1>1, <1>4, <2>1, <2>2 DEF IInv, TypeOK, HelperPc, engine, fixed, Codes
  <2>4. Exchange(s)'
    BY <1>1, <2>2 DEF IInv, TypeOK, Exchange, OneRequest, Quiet, engine
  <2>5. /\ record'[RuleOf[s]] = new /\ helper'[s] = "input"
        /\ \A t \in Sessions \ {s} : helper'[t] = helper[t] /\ reply'[t] = reply[t]
        /\ \A r \in Rules \ {RuleOf[s]} : record'[r] = record[r] /\ lock'[r] = lock[r]
    BY <1>1, <1>4, <2>2 DEF IInv, TypeOK
  <2>6. \A t \in Sessions : Alive(t) /\ RuleOf[t] = RuleOf[s] => ~Mine(t)
    BY <1>1 DEF Mine
  <2>7. Alive(s) => worker[s] \notin {"confirming", "serving"}
    BY <2>6, <1>1 DEF IInv, Leased, Using
  <2> QED
    BY <1>1, <2>2, <2>3, <2>4, <2>5, <2>6, <2>7, RecordStep
<1> QED
  BY <1>2, <1>3, <1>4

LEMMA ConfirmLooksSteps ==
  ASSUME IInv, NEW s \in Sessions, ConfirmLooks(s)
  PROVE  IInv'
<1> USE LeaseAssumption, NobodyAssumption
<1> DEFINE seen == IF platform = "macos" THEN MacLooks(s) ELSE Confirmable(s)
<1>1. seen \in Codes
  BY DEF MacLooks, Confirmable, Codes
<1>2. CASE seen = "ok"
  <2> USE <1>2 DEF ConfirmLooks, HelperOnly, Goes, Takes, NoFault
  <2>1. TypeOK'
    BY DEF IInv, TypeOK, HelperPc, engine, fixed
  <2>2. Exchange(s)'
    BY DEF IInv, TypeOK, Exchange, OneRequest, Quiet, engine, Wants
  <2>3. Judgement(s)' /\ Leased(s)'
    BY DEF IInv, TypeOK, Judgement, Leased, Alive, Mine, Confirmed, engine
  <2> QED
    BY <2>1, <2>2, <2>3, HelperOnlyStep DEF IInv, TypeOK
<1>3. CASE seen # "ok"
  <2>1. Replies(s, seen) /\ Takes(s, "confirm") /\ UNCHANGED helper
    BY <1>3 DEF ConfirmLooks
  <2>2. Goes(s, "input")
    BY <2>1 DEF Goes, Takes, IInv, TypeOK
  <2> QED
    BY <1>1, <1>3, <2>1, <2>2, AnswerStep, FaultsBounded
    DEF ConfirmLooks, Takes, IInv, Wants
<1> QED
  BY <1>2, <1>3

\* A confirmation only turns the phase of the record that the session already owns.
LEMMA ConfirmSteps ==
  ASSUME IInv, NEW s \in Sessions, Confirm(s)
  PROVE  IInv'
<1> USE LeaseAssumption, NobodyAssumption
<1> DEFINE new == [record[RuleOf[s]] EXCEPT !.phase = "confirmed"]
<1>1. /\ lock[RuleOf[s]] = None /\ RuleOf[s] \in Rules /\ HelperOnly /\ UNCHANGED <<holder, sshd>>
      /\ \/ helper[s] = "checked" /\ UNCHANGED want
         \/ Takes(s, "confirm")
  BY DEF Confirm, Free
<1>2. \/ \E code \in Codes \ {"ok"} : Refuses(s, code) /\ UNCHANGED record /\ (Faulty \/ NoFault)
      \/ \E code \in {"ok", "io_error"} :
           /\ Mine(s) /\ Refuses(s, code) /\ (Faulty \/ NoFault)
           /\ record' = [record EXCEPT ![RuleOf[s]] = new]
  BY DEF Confirm, Writes, MacConfirms, WindowsConfirms, Confirmable, Codes, IInv, TypeOK
<1>3. CASE \E code \in Codes \ {"ok"} :
             Refuses(s, code) /\ UNCHANGED record /\ (Faulty \/ NoFault)
  BY <1>1, <1>3, AnswerStep, FaultsBounded DEF IInv, Refuses, Takes, Wants
<1>4. ASSUME NEW code \in {"ok", "io_error"}, Refuses(s, code), Faulty \/ NoFault, Mine(s),
             record' = [record EXCEPT ![RuleOf[s]] = new]
      PROVE  IInv'
  <2>1. /\ faults' \in 0..MaxFaults /\ helper[s] \in {"checked", "input"} /\ worker[s] # "none"
        /\ record[RuleOf[s]] \in Lease /\ record[RuleOf[s]].session = s
        /\ record[RuleOf[s]].gen = gen[s]
    BY <1>1, <1>4, FaultsBounded DEF IInv, TypeOK, Takes, Exchange, Mine
  <2>2. new \in Lease /\ new.session = s /\ new.gen = gen[s] /\ new.phase = "confirmed"
    BY <2>1 DEF Lease, Phases
  <2>3. /\ UNCHANGED <<engine, ask, holder, sshd, fixed>>
        /\ helper' = [helper EXCEPT ![s] = "input"] /\ lock' = [lock EXCEPT ![RuleOf[s]] = None]
        /\ reply' = [reply EXCEPT ![s] = IF linked[s] THEN code ELSE None]
        /\ want' \in {want, [want EXCEPT ![s] = None]}
    BY <1>1, <1>4 DEF HelperOnly, Refuses, Replies, Goes, Unlocks, Takes
  <2>4. TypeOK'
    BY <1>1, <1>4, <2>1, <2>2, <2>3 DEF IInv, TypeOK, HelperPc, engine, fixed, Codes
  <2>5. Exchange(s)'
    BY <1>1, <2>3 DEF IInv, TypeOK, Exchange, OneRequest, Quiet, Takes, engine, Wants
  <2>6. /\ record'[RuleOf[s]] = new /\ helper'[s] = "input"
        /\ \A t \in Sessions \ {s} :
             helper'[t] = helper[t] /\ reply'[t] = reply[t] /\ want'[t] = want[t]
        /\ \A r \in Rules \ {RuleOf[s]} : record'[r] = record[r] /\ lock'[r] = lock[r]
    BY <1>1, <1>4, <2>3 DEF IInv, TypeOK
  <2>7. \A t \in Sessions \ {s} : RuleOf[t] = RuleOf[s] => ~Mine(t)
    BY <2>1 DEF Mine
  <2>8. Confirmed(s)'
    BY <2>2, <2>3, <2>6 DEF Confirmed, Mine, engine
  <2>9. /\ record'[RuleOf[s]] # None /\ record'[RuleOf[s]].session = s
        /\ record'[RuleOf[s]].gen = gen[s]
    BY <2>2, <2>6
  <2> HIDE DEF new
  <2> QED
    BY <1>1, <2>1, <2>3, <2>4, <2>5, <2>6, <2>7, <2>8, <2>9, RecordStep
<1> QED
  BY <1>2, <1>3, <1>4

\* A record is given up by its own session, which neither listens nor will.
LEMMA ReleaseSteps ==
  ASSUME IInv, NEW s \in Sessions, Release(s)
  PROVE  IInv'
<1> USE LeaseAssumption, NobodyAssumption
<1>1. /\ Takes(s, "release") /\ helper[s] = "input" /\ HelperOnly /\ lock[RuleOf[s]] = None
      /\ UNCHANGED <<lock, holder, sshd>> /\ RuleOf[s] \in Rules
  BY DEF Release, Takes, Free
<1>2. CASE UNCHANGED <<record, helper>>
  <2>1. PICK code \in {"io_error", "superseded"} : Replies(s, code) /\ (Faulty \/ NoFault)
    BY <1>1, <1>2 DEF Release, Goes, IInv, TypeOK
  <2>2. Goes(s, "input")
    BY <1>1, <1>2 DEF Goes, IInv, TypeOK
  <2> QED
    BY <1>1, <1>2, <2>1, <2>2, AnswerStep, FaultsBounded DEF IInv, Wants, Codes
<1>3. CASE Mine(s) /\ record' = [record EXCEPT ![RuleOf[s]] = None] /\ faults' = faults
             /\ Replies(s, "ok") /\ Goes(s, "gone")
  <2> USE <1>1, <1>3 DEF HelperOnly, Replies, Goes, Takes
  <2>1. TypeOK'
    BY DEF IInv, TypeOK, HelperPc, engine, fixed, Codes
  <2>2. worker[s] \in Ended \cup {"releasing", "closed"} /\ ask[s] \in {"refused", "cancelled"}
    BY DEF IInv, Exchange
  <2>3. Counted' /\ \A t \in Sessions : Numbered(t)'
    BY DEF IInv, TypeOK, Counted, Begun, Numbered, Siblings, Retired, engine
  <2>4. ASSUME NEW t \in Sessions PROVE Exchange(t)'
    BY <2>2 DEF IInv, TypeOK, Exchange, OneRequest, Quiet, engine, Ended, Wants
  <2>5. ASSUME NEW t \in Sessions PROVE Judgement(t)'
    <3>1. helper'[t] \in {"aim", "settle"} => t # s /\ RuleOf[t] # RuleOf[s] /\ RuleOf[t] \in Rules
      BY DEF IInv, TypeOK, Judgement
    <3> QED
      BY <3>1 DEF IInv, TypeOK, Judgement, Alive, engine
  <2>6. ASSUME NEW t \in Sessions PROVE Leased(t)'
    <3>1. CASE t = s
      BY <2>2, <3>1 DEF Leased, Using, Opening, Ended, engine
    <3>2. CASE t # s /\ RuleOf[t] = RuleOf[s]
      BY <3>2 DEF IInv, TypeOK, Leased, Alive, Mine, Confirmed, engine
    <3>3. CASE RuleOf[t] # RuleOf[s]
      BY <3>3 DEF IInv, TypeOK, Leased, Alive, Mine, Confirmed, engine
    <3> QED
      BY <3>1, <3>2, <3>3
  <2>7. ASSUME NEW r \in Rules PROVE Recorded(r)'
    BY DEF IInv, TypeOK, Recorded, engine
  <2>8. (\A t \in Sessions : Bound(t)') /\ \A a \in Addresses : Held(a)'
    BY DEF IInv, Bound, Held, Alive, engine
  <2> QED
    BY <2>1, <2>3, <2>4, <2>5, <2>6, <2>7, <2>8 DEF IInv
<1> QED
  BY <1>2, <1>3 DEF Release, NoFault

LEMMA LockRefusedSteps ==
  ASSUME IInv, NEW s \in Sessions, RegistryFails(s) \/ LockBusy(s)
  PROVE  IInv'
<1>1. LockRefused(s) /\ faults' \in 0..MaxFaults
  BY FaultsBounded DEF RegistryFails, LockBusy, IInv
<1> QED
  BY <1>1, AnswerStep DEF LockRefused, Takes, Wants, Codes

LEMMA HelperEndsSteps ==
  ASSUME IInv, NEW s \in Sessions, HelperEnds(s)
  PROVE  IInv'
<1> USE LeaseAssumption, NobodyAssumption DEF HelperEnds, HelperOnly, Goes
<1>1. TypeOK'
  BY FaultsBounded DEF IInv, TypeOK, HelperPc, engine, fixed
<1>2. helper[s] \notin {"none", "gone"}
  OBVIOUS
<1>3. Exchange(s)'
  BY <1>2 DEF IInv, TypeOK, Exchange, OneRequest, Quiet, engine, Wants
<1>4. Judgement(s)' /\ Leased(s)'
  BY DEF IInv, TypeOK, Judgement, Leased, Alive, Mine, Confirmed, engine
<1>5. ASSUME NEW t \in Sessions \ {s}, lock[RuleOf[t]] = t PROVE lock'[RuleOf[t]] = t
  <2>1. RuleOf[t] \in Rules /\ RuleOf[s] \in Rules /\ t # None
    OBVIOUS
  <2> QED
    BY <1>5, <2>1 DEF IInv, TypeOK
<1>6. \A t \in Sessions \ {s} :
        helper'[t] = helper[t] /\ want'[t] = want[t] /\ reply'[t] = reply[t]
  BY DEF IInv, TypeOK
<1> QED
  BY <1>1, <1>3, <1>4, <1>5, <1>6, HelperOnlyStep
-----------------------------------------------------------------------------
(***************************************************************************)
(* The invariant, and what it says.                                        *)
(***************************************************************************)
LEMMA InitInvariant == Init => IInv
<1> SUFFICES ASSUME Init PROVE IInv
  OBVIOUS
<1> USE LeaseAssumption, NobodyAssumption DEF Init
<1>1. TypeOK
  <2>1. opaque \in BOOLEAN
    BY Zenon
  <2>3. /\ platform \in Platforms /\ faults \in 0..MaxFaults
        /\ saved \in [Rules -> Nat] /\ record \in [Rules -> Lease \cup {None}]
        /\ lock \in [Rules -> Sessions \cup {None}]
        /\ holder \in [Addresses -> Sessions \cup {None, Other}]
    OBVIOUS
  <2>2. /\ gen \in [Sessions -> Nat] /\ addr \in [Sessions -> Addresses \cup {None}]
        /\ worker \in [Sessions -> Waiting \cup Ended \cup {"none", "closed"}]
        /\ stop \in [Sessions -> BOOLEAN] /\ after \in [Sessions -> Ended]
        /\ refused \in [Sessions -> 0..3] /\ linked \in [Sessions -> BOOLEAN]
    BY DEF Ended
  <2> QED
    BY <2>1, <2>2, <2>3 DEF TypeOK, HelperPc
<1>2. Counted
  <2>1. Cardinality(Begun) \in Nat
    BY FS_Subset, FS_CardinalityType DEF Begun
  <2> QED
    BY <2>1 DEF Counted
<1>3. ASSUME NEW s \in Sessions
      PROVE  Numbered(s) /\ Exchange(s) /\ Judgement(s) /\ Leased(s) /\ Bound(s)
  <2>1. Numbered(s)
    BY DEF Numbered, Siblings
  <2> QED
    BY <2>1 DEF Exchange, Judgement, Leased, Bound, Alive, Wants, Asks
<1>4. (\A r \in Rules : Recorded(r)) /\ \A a \in Addresses : Held(a)
  BY DEF Recorded, Held
<1> QED
  BY <1>1, <1>2, <1>3, <1>4 DEF IInv

LEMMA StepInvariant == IInv /\ [Next]_vars => IInv'
<1> SUFFICES ASSUME IInv, [Next]_vars PROVE IInv'
  OBVIOUS
<1>1. ASSUME NEW s \in Sessions,
             \/ Reserve(s) \/ Cancel(s) \/ HelperFails(s) \/ LeaseCutShort(s) \/ Lose(s)
             \/ Notices(s) \/ Exits(s) \/ WorkerStep(s) \/ SshdStep(s) \/ HelperStep(s)
      PROVE  IInv'
  <2>1. CASE WorkerStep(s)
    BY <2>1, HelperStartsSteps, AbandonClaimSteps, ClaimAnsweredSteps, ListenAcceptedSteps,
       ListenRefusedSteps, BackoffEndsSteps, ConfirmAnsweredSteps, StopServingSteps,
       HelperLostSteps, ListenerCancelledSteps, ReleaseAnsweredSteps, CutOffSteps
    DEF WorkerStep
  <2>2. CASE HelperStep(s)
    BY <2>2, IdentifySteps, JudgeSteps, EndOldSteps, SettleSteps, ConfirmLooksSteps,
       ConfirmSteps, ReleaseSteps, LockRefusedSteps, HelperEndsSteps
    DEF HelperStep
  <2> QED
    BY <1>1, <2>1, <2>2, ReserveSteps, CancelSteps, HelperFailsSteps, LeaseCutShortSteps,
       CutOffSteps, NoticesSteps, ExitsSteps, SshdSteps
    DEF SshdStep
<1>2. CASE UNCHANGED vars
  <2> USE <1>2 DEF vars, fixed, engine, server, wire
  <2>1. TypeOK' /\ Counted'
    BY DEF IInv, TypeOK, Counted, Begun
  <2>2. \A s \in Sessions : Numbered(s)' /\ Exchange(s)' /\ Judgement(s)'
    BY DEF IInv, Numbered, Siblings, Retired, Exchange, OneRequest, Quiet, Judgement, Alive
  <2>3. \A s \in Sessions : Leased(s)' /\ Bound(s)'
    BY DEF IInv, Leased, Bound, Alive, Mine, Confirmed
  <2>4. (\A r \in Rules : Recorded(r)') /\ \A a \in Addresses : Held(a)'
    BY DEF IInv, Recorded, Held, Alive
  <2> QED
    BY <2>1, <2>2, <2>3, <2>4 DEF IInv
<1> QED
  BY <1>1, <1>2, OtherProgramSteps DEF Next

\* Types, generations, locks and the record agree at every moment, whoever has died meanwhile.
THEOREM Invariant == Spec => []IInv
BY InitInvariant, StepInvariant, PTL DEF Spec

\* Every variable of the engine, the server and the wire between them keeps its type.
THEOREM LeaseTypeCorrect == Spec => []TypeOK
<1>1. IInv => TypeOK
  BY DEF IInv
<1> QED
  BY <1>1, Invariant, PTL

\* A rule shown as established has its listener open, recorded and confirmed: RemoteLease::confirm
\* answered for this claim, and nothing but its own release takes the record away meanwhile.
THEOREM ServingConfirmed == Spec => []ServingIsConfirmed
<1>1. IInv => ServingIsConfirmed
  BY DEF IInv, Exchange, Leased, Bound, Alive, Confirmed, ServingIsConfirmed
<1> QED
  BY <1>1, Invariant, PTL
-----------------------------------------------------------------------------
(***************************************************************************)
(* What a step may never do.                                               *)
(***************************************************************************)
\* A helper that does not return to its input, and does not die, identifies, judges, ends the
\* old session or looks at its listener.
LEMMA HelperMoves ==
  ASSUME TypeOK, Next, NEW t \in Sessions, helper'[t] \in {"settle", "aim"}, helper'[t] # helper[t]
  PROVE  Judge(t) \/ EndOld(t)
<1>1. ASSUME NEW s \in Sessions, WorkerStep(s) \/ Reserve(s) \/ Cancel(s) \/ HelperFails(s)
                                 \/ LeaseCutShort(s) \/ Lose(s)
      PROVE  helper' = helper \/ helper' = [helper EXCEPT ![s] = "input"]
  BY <1>1 DEF WorkerStep, HelperStarts, AbandonClaim, ClaimAnswered, ListenAccepted, ListenRefused,
     BackoffEnds, ConfirmAnswered, StopServing, HelperLost, ListenerCancelled, ReleaseAnswered,
     HangUp, Reserve, Cancel, HelperFails, LeaseCutShort, Lose, CutOff, Moves, Request, Tell, server
<1>2. ASSUME NEW s \in Sessions, SshdStep(s) \/ Notices(s) \/ Exits(s)
      PROVE  helper' = helper
  BY <1>2 DEF SshdStep, Listens, StopsListening, Notices, Exits, ServerOnly
<1>3. ASSUME NEW a \in Addresses, OtherProgram(a)
      PROVE  helper' = helper
  BY <1>3 DEF OtherProgram, ServerOnly
<1>4. ASSUME NEW s \in Sessions, HelperStep(s), ~Judge(s), ~EndOld(s)
      PROVE  \/ helper' = helper
             \/ \E pc \in {"claim", "checked", "input", "gone"} :
                  helper' = [helper EXCEPT ![s] = pc]
  BY <1>4 DEF HelperStep, Identify, Settle, ConfirmLooks, Confirm, Release, RegistryFails, LockBusy,
     LockRefused, HelperEnds, Writes, Refuses, Goes
<1>5. ASSUME NEW s \in Sessions, Judge(s) \/ EndOld(s), s # t
      PROVE  helper'[t] = helper[t]
  BY <1>5 DEF Judge, EndOld, Refuses, Goes, TypeOK
<1> QED
  BY <1>1, <1>2, <1>3, <1>4, <1>5 DEF Next, TypeOK

\* A claim that has an old session ended ends the one on record, which has an older generation;
\* and of two sessions of a rule the older was cancelled before the newer one began.
THEOREM OldSessionsOnly == Spec => EndsOnlyRetired
<1> DEFINE Fair(s, t) ==
             helper[t] = "aim" /\ helper'[t] = "settle" /\ Alive(s) /\ sshd'[s] # sshd[s]
               => gen[s] < gen[t] /\ Retired(s)
<1>1. ASSUME IInv, [Next]_vars, NEW s \in Sessions, NEW t \in Siblings(s),
             helper[t] = "aim", helper'[t] = "settle", sshd'[s] # sshd[s]
      PROVE  gen[s] < gen[t] /\ Retired(s)
  <2>1. t \in Sessions /\ Next
    BY <1>1 DEF Siblings, vars, server
  <2>2. EndOld(t)
    BY <1>1, <2>1, HelperMoves DEF IInv, Judge, Judging
  <2>3. record[RuleOf[t]] # None /\ record[RuleOf[t]].gen < gen[t] /\ RuleOf[t] \in Rules
    BY <1>1, <2>1, LeaseAssumption DEF IInv, Judgement
  <2>4. s = record[RuleOf[t]].session
    BY <1>1, <2>2 DEF EndOld, IInv, TypeOK
  <2>5. gen[s] < gen[t]
    BY <1>1, <2>3, <2>4 DEF IInv, Recorded
  <2> QED
    BY <1>1, <2>5 DEF IInv, Numbered
<1>2. IInv /\ [Next]_vars => [\A s \in Sessions : \A t \in Siblings(s) : Fair(s, t)]_vars
  BY <1>1
<1> QED
  BY <1>2, Invariant, PTL DEF Spec, EndsOnlyRetired

\* Except on Windows, a helper that cannot have the address it was asked for refuses the claim
\* before it turns to the old session.
THEOREM OldSessionSpared == Spec => SparesOldSession
<1> DEFINE Spares == platform # "windows" => \A s \in Sessions : ~EndsInVain(s)
<1>1. ASSUME IInv, Next, platform # "windows", NEW s \in Sessions, EndsInVain(s)
      PROVE  FALSE
  <2>1. Judge(s)
    BY <1>1, HelperMoves DEF EndsInVain, IInv, EndOld
  <2>2. Judged(s) = "end" /\ record[RuleOf[s]] # None
    BY <1>1, <2>1 DEF Judge, Refuses, Goes, EndsInVain, IInv, TypeOK, Judged
  <2>3. Elsewhere(s, record[RuleOf[s]])
    BY <1>1 DEF EndsInVain, Elsewhere
  <2>4. platform \in {"linux", "macos", "python"}
    BY <1>1, LeaseAssumption DEF IInv, TypeOK
  <2>5. Verdict(s, record[RuleOf[s]]) # "end"
    BY <2>3, <2>4 DEF Verdict, MacVerdict, LinuxVerdict, PythonVerdict
  <2> QED
    BY <2>2, <2>5 DEF Judged
<1>2. ASSUME IInv, UNCHANGED vars, NEW s \in Sessions
      PROVE  ~EndsInVain(s)
  BY <1>2 DEF vars, server, EndsInVain
<1>3. IInv /\ [Next]_vars => [Spares]_vars
  BY <1>1
<1> QED
  BY <1>3, Invariant, PTL DEF Spec, SparesOldSession
-----------------------------------------------------------------------------
(***************************************************************************)
(* The abstract fence.                                                     *)
(***************************************************************************)
\* What a lease record says of the fence.
Owner == [r \in Rules |-> IF record[r] = None THEN None
                          ELSE [session |-> record[r].session, gen |-> record[r].gen]]

\* Neither the records nor who listens: the fence does not move.
LEMMA FenceStays ==
  ASSUME Owner' = Owner, Listening' = Listening
  PROVE  [Fence!Next]_(Fence!vars)
BY DEF Fence!vars, Owner

\* A record stands for a claim.
LEMMA OwnerClaims ==
  ASSUME TypeOK, NEW r \in Rules, record[r] # None
  PROVE  /\ Owner[r] = [session |-> record[r].session, gen |-> record[r].gen]
         /\ Owner[r] # None /\ record[r].gen \in Nat
<1>1. record[r] \in Lease
  BY DEF TypeOK
<1>2. [session |-> record[r].session, gen |-> record[r].gen] \in Claim
  BY <1>1 DEF Claim, Lease
<1> QED
  BY <1>1, <1>2, NobodyAssumption DEF Owner, Lease

LEMMA InitFence == Init => Fence!Init
BY LeaseAssumption DEF Init, Fence!Init, Listening

\* Only the session on record opens a listener.
LEMMA FenceOpens ==
  ASSUME IInv, NEW s \in Sessions, Listens(s)
  PROVE  [Fence!Next]_(Fence!vars)
<1> USE LeaseAssumption, NobodyAssumption
<1>1. Owner' = Owner
  BY DEF Listens, ServerOnly, Owner
<1>2. CASE holder' = holder
  BY <1>1, <1>2, FenceStays DEF Listening
<1>3. CASE holder' = [holder EXCEPT ![addr[s]] = s] /\ holder[addr[s]] = None
  <2>1. addr[s] \in Addresses /\ ask[s] = "listen" /\ Alive(s)
    BY Addressed DEF Listens, Asks, Alive
  <2>2. Listening' = Listening \cup {s}
    BY <1>3, <2>1 DEF Listening, IInv, TypeOK
  <2>3. Mine(s)
    BY <2>1 DEF IInv, Leased, Opening
  <2>4. Fence!Open(s)
    BY <1>1, <2>2, <2>3, OwnerClaims DEF IInv, Fence!Open, Mine, Owner
  <2> QED
    BY <2>4 DEF Fence!Next
<1> QED
  BY <1>2, <1>3 DEF Listens

\* Processes that end, and cancelled listeners, only leave.
LEMMA FenceCloses ==
  ASSUME TypeOK, TypeOK', NEW s \in Sessions, record' = record,
         holder' \in {holder, FreedFrom(s)}
  PROVE  [Fence!Next]_(Fence!vars)
<1> USE LeaseAssumption
<1>1. Owner' = Owner
  BY DEF Owner
<1>2. CASE holder' = holder
  BY <1>1, <1>2, FenceStays DEF Listening
<1>3. CASE holder' = FreedFrom(s)
  <2>1. Listening' = Listening \ {s}
    BY <1>3 DEF Listening, FreedFrom, TypeOK
  <2>2. CASE s \in Listening
    <3>1. Fence!Close(s)
      BY <1>1, <2>1, <2>2 DEF Fence!Close, Owner
    <3> QED
      BY <3>1 DEF Fence!Next
  <2>3. CASE s \notin Listening
    BY <1>1, <2>1, <2>3, FenceStays
  <2> QED
    BY <2>2, <2>3
<1> QED
  BY <1>2, <1>3

LEMMA FenceIgnoresOthers ==
  ASSUME IInv, NEW a \in Addresses, OtherProgram(a)
  PROVE  [Fence!Next]_(Fence!vars)
<1>1. Owner' = Owner /\ Listening' = Listening
  BY LeaseAssumption DEF OtherProgram, ServerOnly, Owner, Listening, IInv, TypeOK
<1> QED
  BY <1>1, FenceStays

\* Every generation is the number of a session that has begun.
LEMMA GenerationsBounded ==
  ASSUME IInv, NEW s \in Sessions, worker[s] # "none"
  PROVE  gen[s] \in 1..Cardinality(Sessions)
<1>1. /\ gen[s] \in 1..saved[RuleOf[s]] /\ saved[RuleOf[s]] \in Nat
      /\ saved[RuleOf[s]] <= Cardinality(Begun)
  BY LeaseAssumption DEF IInv, TypeOK, Numbered, Counted
<1>2. /\ Cardinality(Begun) \in Nat /\ Cardinality(Sessions) \in Nat
      /\ Cardinality(Begun) <= Cardinality(Sessions)
  BY LeaseAssumption, FS_Subset, FS_CardinalityType DEF Begun
<1> QED
  BY <1>1, <1>2

\* A record is written when no session of the rule listens, for a newer generation.
LEMMA FenceGrants ==
  ASSUME IInv, NEW s \in Sessions, Settle(s)
  PROVE  [Fence!Next]_(Fence!vars)
<1> USE LeaseAssumption, NobodyAssumption
<1> DEFINE new == [session |-> s, gen |-> gen[s], addr |-> addr[s], phase |-> "claimed"]
           old == record[RuleOf[s]]
<1>1. /\ holder' = holder /\ RuleOf[s] \in Rules /\ worker[s] # "none"
      /\ old # None => old.gen < gen[s] /\ ~Alive(old.session)
  BY DEF Settle, IInv, TypeOK, Judgement, Exchange
<1>2. CASE UNCHANGED record
  BY <1>1, <1>2, FenceStays DEF Owner, Listening
<1>3. CASE record' = [record EXCEPT ![RuleOf[s]] = new]
  <2>1. ASSUME NEW t \in Sessions, RuleOf[t] = RuleOf[s], t \in Listening
        PROVE  FALSE
    <3>1. Alive(t) /\ ask[t] \in Opening
      BY <2>1 DEF Listening, IInv, Held, Opening
    <3> QED
      BY <1>1, <2>1, <3>1 DEF IInv, Leased, Mine
  <2>2. Owner[RuleOf[s]] # None => Owner[RuleOf[s]].gen < gen[s]
    BY <1>1, OwnerClaims DEF IInv, Owner
  <2>3. new # None /\ new \in Lease
    BY <1>1 DEF IInv, TypeOK, Numbered, Lease, Phases
  <2>4. Owner' = [Owner EXCEPT ![RuleOf[s]] = [session |-> s, gen |-> gen[s]]]
    BY <1>1, <1>3, <2>3 DEF Owner, IInv, TypeOK
  <2>5. PICK g \in 1..Cardinality(Sessions) : g = gen[s]
    BY <1>1, GenerationsBounded
  <2>6. Fence!Grant(RuleOf[s], s, g)
    BY <1>1, <2>1, <2>2, <2>3, <2>4, <2>5 DEF Fence!Grant, Fence!Of, Owner, Listening
  <2> QED
    BY <1>1, <2>6 DEF Fence!Next
<1> QED
  BY <1>2, <1>3 DEF Settle, Writes

LEMMA FenceConfirms ==
  ASSUME IInv, NEW s \in Sessions, Confirm(s)
  PROVE  [Fence!Next]_(Fence!vars)
<1> USE LeaseAssumption, NobodyAssumption
<1> DEFINE new == [record[RuleOf[s]] EXCEPT !.phase = "confirmed"]
<1>1. /\ holder' = holder /\ RuleOf[s] \in Rules
      /\ \/ UNCHANGED record
         \/ record[RuleOf[s]] # None /\ record' = [record EXCEPT ![RuleOf[s]] = new]
  BY DEF Confirm, Writes, Mine
<1>2. Owner' = Owner
  <2>1. CASE UNCHANGED record
    BY <2>1 DEF Owner
  <2>2. CASE record[RuleOf[s]] # None /\ record' = [record EXCEPT ![RuleOf[s]] = new]
    <3>1. record[RuleOf[s]] \in Lease
      BY <1>1, <2>2 DEF IInv, TypeOK
    <3>2. /\ new \in Lease /\ new.session = record[RuleOf[s]].session
          /\ new.gen = record[RuleOf[s]].gen
      BY <3>1 DEF Lease, Phases
    <3> QED
      BY <1>1, <2>2, <3>1, <3>2 DEF Owner, IInv, TypeOK
  <2> QED
    BY <1>1, <2>1, <2>2
<1> QED
  BY <1>1, <1>2, FenceStays DEF Listening

\* A record is given up by its session, which no longer listens.
LEMMA FenceGivesUp ==
  ASSUME IInv, NEW s \in Sessions, Release(s)
  PROVE  [Fence!Next]_(Fence!vars)
<1> USE LeaseAssumption, NobodyAssumption
<1>1. holder' = holder /\ RuleOf[s] \in Rules
  BY DEF Release
<1>2. CASE UNCHANGED record
  BY <1>1, <1>2, FenceStays DEF Owner, Listening
<1>3. CASE Mine(s) /\ record' = [record EXCEPT ![RuleOf[s]] = None]
  <2>1. ask[s] \in {"refused", "cancelled"}
    BY DEF Release, Takes, IInv, Exchange
  <2>2. s \notin Listening
    BY <2>1 DEF Listening, IInv, Held
  <2>3. Owner' = [Owner EXCEPT ![RuleOf[s]] = None]
    BY <1>1, <1>3 DEF Owner, IInv, TypeOK
  <2>4. Fence!GiveUp(RuleOf[s])
    BY <1>1, <1>3, <2>2, <2>3, OwnerClaims DEF Fence!GiveUp, Owner, Mine, Listening, IInv
  <2> QED
    BY <1>1, <2>4 DEF Fence!Next
<1> QED
  BY <1>2, <1>3 DEF Release

\* The other steps leave both records and listeners alone, or only end processes.
LEMMA FenceStep == IInv /\ IInv' /\ [Next]_vars => [Fence!Next]_(Fence!vars)
<1> SUFFICES ASSUME IInv, IInv', [Next]_vars PROVE [Fence!Next]_(Fence!vars)
  OBVIOUS
<1>1. ASSUME NEW s \in Sessions,
             \/ WorkerStep(s) \/ Reserve(s) \/ Cancel(s) \/ HelperFails(s) \/ LeaseCutShort(s)
             \/ Lose(s) \/ Notices(s) \/ Identify(s) \/ Judge(s) \/ ConfirmLooks(s)
             \/ RegistryFails(s) \/ LockBusy(s) \/ HelperEnds(s)
      PROVE  record' = record /\ holder' = holder
  <2>1. CASE WorkerStep(s)
    BY <2>1 DEF WorkerStep, HelperStarts, AbandonClaim, ClaimAnswered, ListenAccepted,
       ListenRefused, BackoffEnds, ConfirmAnswered, StopServing, HelperLost, ListenerCancelled,
       ReleaseAnswered, HangUp, CutOff, Moves, Request, Tell, server
  <2>2. CASE Reserve(s) \/ Cancel(s) \/ HelperFails(s) \/ LeaseCutShort(s) \/ Lose(s) \/ Notices(s)
    BY <2>2 DEF Reserve, Cancel, HelperFails, LeaseCutShort, Lose, Notices, CutOff, Moves,
       ServerOnly, server
  <2>3. CASE \/ Identify(s) \/ Judge(s) \/ ConfirmLooks(s) \/ RegistryFails(s) \/ LockBusy(s)
             \/ HelperEnds(s)
    BY <2>3 DEF Identify, Judge, Judging, ConfirmLooks, RegistryFails, LockBusy, LockRefused,
       HelperEnds
  <2> QED
    BY <1>1, <2>1, <2>2, <2>3
<1>2. ASSUME record' = record, holder' = holder
      PROVE  [Fence!Next]_(Fence!vars)
  BY <1>2, FenceStays DEF Owner, Listening
<1>3. ASSUME NEW s \in Sessions, StopsListening(s) \/ Exits(s)
      PROVE  [Fence!Next]_(Fence!vars)
  BY <1>3, FenceCloses DEF StopsListening, Exits, ServerOnly, IInv
<1>4. ASSUME NEW s \in Sessions, EndOld(s)
      PROVE  [Fence!Next]_(Fence!vars)
  <2>1. record[RuleOf[s]] \in Lease
    BY <1>4, LeaseAssumption DEF EndOld, IInv, TypeOK, Judgement
  <2>2. record' = record /\ holder' \in {holder, FreedFrom(record[RuleOf[s]].session)}
    BY <1>4 DEF EndOld
  <2> QED
    BY <2>1, <2>2, FenceCloses DEF Lease, IInv
<1>5. ASSUME NEW s \in Sessions,
             \/ Reserve(s) \/ Cancel(s) \/ HelperFails(s) \/ LeaseCutShort(s) \/ Lose(s)
             \/ Notices(s) \/ Exits(s) \/ WorkerStep(s) \/ SshdStep(s) \/ HelperStep(s)
      PROVE  [Fence!Next]_(Fence!vars)
  BY <1>1, <1>2, <1>3, <1>4, <1>5, FenceOpens, FenceGrants, FenceConfirms, FenceGivesUp
  DEF SshdStep, HelperStep
<1>6. CASE UNCHANGED vars
  BY <1>2, <1>6 DEF vars, server
<1> QED
  BY <1>5, <1>6, FenceIgnoresOthers DEF Next

\* Claims, listeners and releases together are the abstract fence: a rule's listener belongs to
\* its newest recorded generation, which nobody replaces while an older session listens.
THEOREM FenceKept == Spec => KeepsFence
<1>1. IInv /\ IInv' /\ [Next]_vars => [Fence!Next]_(Fence!vars)
  BY FenceStep
<1> QED
  BY <1>1, InitFence, Invariant, PTL DEF Spec, KeepsFence, Fence!Spec
=============================================================================
