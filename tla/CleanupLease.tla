----------------------------- MODULE CleanupLease -----------------------------
(***************************************************************************)
(* Verified cleanup of remote listeners.  A worker that wants a listener   *)
(* on a server reserves a generation on disk, uploads a helper over its    *)
(* own SSH session and has it claim the rule in a record kept on the       *)
(* server, ending the session of an earlier claim if that still lives;     *)
(* then it asks sshd for the listener, has the helper confirm it, and      *)
(* takes the record away again once sshd has confirmed its cancellation.   *)
(* Connections are lost on one side only, sshd answers requests of clients *)
(* that are gone, helpers die, and other programs bind the same addresses. *)
(***************************************************************************)
EXTENDS Naturals, FiniteSets

CONSTANTS
  Sessions,    \* SSH sessions the engine opens, each dedicated to one rule
  Rules,
  RuleOf,      \* the rule a session is opened for
  Addresses,   \* listening addresses on the server
  Platforms,   \* the server's helper: "linux", "macos", "windows" or "python"
  MaxFaults,   \* bound: deaths, failed requests, timeouts and bindings of other programs; a
               \* connection can be lost once, and does not count
  None, Other  \* nobody; some other program of the same user

ASSUME LeaseAssumption ==
  /\ IsFiniteSet(Sessions) /\ RuleOf \in [Sessions -> Rules]
  /\ Platforms \subseteq {"linux", "macos", "windows", "python"}
  /\ {None, Other} \cap Sessions = {} /\ None # Other
  /\ MaxFaults \in Nat

VARIABLES
  platform,  \* which helper the server runs
  opaque,    \* the system hides which process owns a socket
  saved,     \* recovery.json: rule -> last generation reserved
  record,    \* lease record on the server: rule -> [session, gen, addr, phase], or None
  lock,      \* the rule's lock file: the session whose helper holds it, or None
  holder,    \* address -> who listens there
  gen, addr, \* session -> what it claims with
  worker,    \* session -> where the engine's worker for the rule is
  stop,      \* session -> the worker has been cancelled
  after,     \* session -> how the worker ends once it has released
  refused,   \* session -> listen requests refused so far
  linked,    \* session -> the engine still has the connection
  sshd,      \* session -> server process: "none", "up", "deaf" (connection closed), "gone"
  ask,       \* session -> the request to sshd, or its answer
  want,      \* session -> the request to the helper it has not read
  helper,    \* session -> where the helper is
  reply,     \* session -> the helper's unread answer
  faults

engine == <<saved, gen, addr, worker, stop, after, refused, linked>>
server == <<record, lock, holder, sshd, helper>>
wire == <<ask, want, reply>>
fixed == <<platform, opaque>>
vars == <<fixed, engine, server, wire, faults>>

Waiting == {"startup", "claiming", "listening", "backoff", "confirming", "serving", "closing",
            "releasing"}
Ended == {"over", "retry", "attention"}
HelperPc == {"none", "input", "claim", "aim", "settle", "checked", "gone"}
Codes == {"ok", "superseded", "ownership_mismatch", "unmanaged_conflict", "permission_denied",
          "listener_missing", "unsupported", "exec_denied", "helper_upload_failed",
          "helper_unavailable", "protocol", "timeout", "state", "io_error"}
Phases == {"claimed", "confirmed"}
Lease == [session : Sessions, gen : Nat, addr : Addresses, phase : Phases]
Claim == [session : Sessions, gen : Nat]
Asks == {"listen", "bound", "refused", "cancel", "cancelled", "kept"}
Wants == {"claim", "confirm", "release"}

ASSUME NobodyAssumption == None \notin Asks \cup Wants \cup Codes \cup Lease \cup Claim

Faulty == faults < MaxFaults /\ faults' = faults + 1
NoFault == UNCHANGED faults
-----------------------------------------------------------------------------
(***************************************************************************)
(* Errors.                                                                 *)
(***************************************************************************)
\* CleanupError::needs_attention: a new connection cannot repair it.
NeedsAttention(code) == code \notin {"timeout", "unmanaged_conflict"}

\* cleanup_failure: the worker asks for a new connection or for the user's attention.
Failure(code) == IF NeedsAttention(code) THEN "attention" ELSE "retry"

\* What reserving a generation, or opening the helper, ends with when it fails.
StateErrors  == {"state"}
DetectErrors == {"exec_denied", "unsupported", "protocol", "timeout"}
UploadErrors == {"exec_denied", "helper_upload_failed", "protocol", "timeout"}
StartErrors  == {"exec_denied", "helper_unavailable", "protocol", "timeout"}
-----------------------------------------------------------------------------
(***************************************************************************)
(* The engine: one worker per session.                                     *)
(***************************************************************************)
Siblings(s) == {t \in Sessions \ {s} : RuleOf[t] = RuleOf[s]}
Becomes(s, pc) == worker' = [worker EXCEPT ![s] = pc]

\* A rule has a new worker only once its earlier ones are cancelled or cut off.
Retired(t) == worker[t] \in {"none", "closed"} \/ stop[t]

\* CleanupContext::reserve, on a new connection: the generation is on disk before it is used.
Reserve(s) ==
  /\ worker[s] = "none" /\ \A t \in Siblings(s) : Retired(t)
  /\ saved' = [saved EXCEPT ![RuleOf[s]] = @ + 1]
  /\ gen' = [gen EXCEPT ![s] = saved[RuleOf[s]] + 1]
  /\ \E a \in Addresses : addr' = [addr EXCEPT ![s] = a]
  /\ Becomes(s, "startup")
  /\ linked' = [linked EXCEPT ![s] = TRUE]
  /\ sshd' = [sshd EXCEPT ![s] = "up"]
  /\ NoFault /\ UNCHANGED <<fixed, stop, after, refused, record, lock, holder, helper, wire>>

Cancel(s) ==
  /\ worker[s] \in Waiting \cup Ended /\ ~stop[s]
  /\ stop' = [stop EXCEPT ![s] = TRUE]
  /\ NoFault
  /\ UNCHANGED <<fixed, saved, gen, addr, worker, after, refused, linked, server, wire>>

\* A worker's step without a request: the rest of the state stays.
Moves(s, pc) ==
  /\ Becomes(s, pc)
  /\ UNCHANGED <<fixed, saved, gen, addr, stop, after, refused, linked, server, wire>>

\* open_session: detect the platform, upload the helper, start it; the claim follows.
HelperStarts(s) ==
  /\ worker[s] = "startup" /\ sshd[s] = "up"
  /\ Becomes(s, "claiming")
  /\ helper' = [helper EXCEPT ![s] = "input"]
  /\ want' = [want EXCEPT ![s] = "claim"]
  /\ NoFault
  /\ UNCHANGED <<fixed, saved, gen, addr, stop, after, refused, linked, record, lock, holder,
                 sshd, ask, reply>>

HelperFails(s) ==
  /\ worker[s] = "startup" /\ Faulty
  /\ \E code \in StateErrors \cup DetectErrors \cup UploadErrors \cup StartErrors :
       Moves(s, Failure(code))

\* Cancelled before the claim is answered: the worker returns at once, releasing nothing.
AbandonClaim(s) ==
  /\ worker[s] \in {"startup", "claiming"} /\ stop[s] /\ NoFault /\ Moves(s, "over")

\* Send a request to sshd, or to the helper, and wait.
Request(s, pc, what) ==
  /\ Becomes(s, pc) /\ ask' = [ask EXCEPT ![s] = what]
  /\ NoFault /\ UNCHANGED <<fixed, saved, gen, addr, stop, linked, server>>
Tell(s, pc, what) ==
  /\ Becomes(s, pc) /\ want' = [want EXCEPT ![s] = what]
  /\ NoFault /\ UNCHANGED <<fixed, saved, gen, addr, stop, linked, server>>
Ends(s, how) == after' = [after EXCEPT ![s] = how]
Read(s) == reply[s] # None /\ reply' = [reply EXCEPT ![s] = None]

ClaimAnswered(s) ==
  /\ worker[s] = "claiming" /\ ~stop[s] /\ Read(s)
  /\ \/ reply[s] = "ok" /\ Request(s, "listening", "listen") /\ UNCHANGED <<after, refused, want>>
     \/ /\ reply[s] # "ok" /\ Becomes(s, Failure(reply[s])) /\ NoFault
        /\ UNCHANGED <<fixed, saved, gen, addr, stop, after, refused, linked, server, ask, want>>

\* Seeded fault: the worker serves as soon as sshd has accepted the listener.
ServeUnconfirmed(s) ==
  /\ worker[s] = "listening" /\ ask[s] = "bound"
  /\ Becomes(s, "serving") /\ NoFault
  /\ UNCHANGED <<fixed, saved, gen, addr, stop, after, refused, linked, server, wire>>

\* The listener is open: have it confirmed, or take it back if the rule was stopped meanwhile.
ListenAccepted(s) ==
  /\ worker[s] = "listening" /\ ask[s] = "bound"
  /\ \/ stop[s] /\ Ends(s, "over") /\ Request(s, "closing", "cancel") /\ UNCHANGED <<want, reply, refused>>
     \/ ~stop[s] /\ Tell(s, "confirming", "confirm") /\ UNCHANGED <<ask, reply, after, refused>>

\* VERIFIED_LISTEN_ATTEMPTS refusals give the lease back.
ListenRefused(s) ==
  /\ worker[s] = "listening" /\ ask[s] = "refused" /\ UNCHANGED <<ask, reply>>
  /\ \/ stop[s] /\ Ends(s, "over") /\ Tell(s, "releasing", "release") /\ UNCHANGED refused
     \/ /\ ~stop[s] /\ refused' = [refused EXCEPT ![s] = @ + 1]
        /\ \/ refused[s] + 1 >= 3 /\ Ends(s, "attention") /\ Tell(s, "releasing", "release")
           \/ /\ refused[s] + 1 < 3 /\ Becomes(s, "backoff") /\ NoFault
              /\ UNCHANGED <<fixed, saved, gen, addr, stop, after, linked, server, want>>

BackoffEnds(s) ==
  /\ worker[s] = "backoff" /\ UNCHANGED <<reply, refused>>
  /\ \/ stop[s] /\ Ends(s, "over") /\ Tell(s, "releasing", "release") /\ UNCHANGED ask
     \/ ~stop[s] /\ Request(s, "listening", "listen") /\ UNCHANGED <<want, after>>

\* Only a confirmed listener carries traffic; an unconfirmed one is taken back first.
ConfirmAnswered(s) ==
  /\ worker[s] = "confirming" /\ Read(s) /\ UNCHANGED refused
  /\ \/ /\ reply[s] = "ok" /\ ~stop[s] /\ Becomes(s, "serving") /\ NoFault
        /\ UNCHANGED <<fixed, saved, gen, addr, stop, after, linked, server, ask, want>>
     \/ /\ reply[s] # "ok" \/ stop[s]
        /\ Ends(s, IF reply[s] = "ok" THEN "over" ELSE Failure(reply[s]))
        /\ Request(s, "closing", "cancel") /\ UNCHANGED want

StopServing(s) ==
  /\ worker[s] = "serving" /\ stop[s] /\ Ends(s, "over") /\ Request(s, "closing", "cancel")
  /\ UNCHANGED <<want, reply, refused>>

\* wait_closed: the helper is gone, so nothing can be released on this connection.
HelperLost(s) ==
  /\ worker[s] = "serving" /\ ~stop[s] /\ helper[s] = "gone" /\ NoFault /\ Moves(s, "retry")

\* Seeded fault: a stopped worker gives its lease back without waiting for sshd.
ReleaseFirst(s) ==
  /\ worker[s] = "closing" /\ UNCHANGED <<after, refused, reply, ask>>
  /\ Tell(s, "releasing", "release")

\* cancel_listener: asked again until sshd confirms it; only then is the lease given back.
ListenerCancelled(s) ==
  /\ worker[s] = "closing" /\ UNCHANGED <<after, refused, reply>>
  /\ \/ ask[s] = "cancelled" /\ Tell(s, "releasing", "release") /\ UNCHANGED ask
     \/ ask[s] = "kept" /\ Request(s, "closing", "cancel") /\ UNCHANGED want

\* A refused release ends a worker that had nothing else to report.
Compensating(s) == after[s] # "over" /\ refused[s] < 3
ReleaseAnswered(s) ==
  /\ worker[s] = "releasing" /\ Read(s) /\ NoFault
  /\ Becomes(s, IF reply[s] = "ok" \/ Compensating(s) THEN after[s] ELSE Failure(reply[s]))
  /\ UNCHANGED <<fixed, saved, gen, addr, stop, after, refused, linked, server, ask, want>>

\* A lease request may time out, or end with the helper's output; sshd's replies are awaited for ever.
LeaseCutShort(s) ==
  /\ worker[s] \in {"claiming", "confirming", "releasing"} /\ reply[s] = None
  /\ \E code \in {"timeout", "helper_unavailable"} :
       /\ code = "timeout" => Faulty
       /\ code = "helper_unavailable" => helper[s] = "gone" /\ NoFault
       /\ UNCHANGED <<fixed, saved, gen, addr, stop, refused, linked, server, want, reply>>
       /\ IF worker[s] = "confirming"
          THEN Becomes(s, "closing") /\ Ends(s, Failure(code)) /\ ask' = [ask EXCEPT ![s] = "cancel"]
          ELSE /\ Becomes(s, IF worker[s] = "releasing" /\ Compensating(s) THEN after[s]
                             ELSE Failure(code))
               /\ UNCHANGED <<after, ask>>

\* The connection goes down: every wait of the worker ends, and nothing is released.
CutOff(s) ==
  /\ linked' = [linked EXCEPT ![s] = FALSE] /\ Becomes(s, "closed")
  /\ stop' = [stop EXCEPT ![s] = FALSE] /\ Ends(s, "over") /\ refused' = [refused EXCEPT ![s] = 0]
  /\ reply' = [reply EXCEPT ![s] = None]
  /\ UNCHANGED <<fixed, saved, gen, addr, server, ask, want>>
\* The supervisor hangs up after its worker, or the server did.
HangUp(s) ==
  /\ linked[s] /\ NoFault /\ CutOff(s)
  /\ \/ worker[s] \in {"over", "retry"}
     \/ worker[s] = "attention" /\ stop[s]
     \/ sshd[s] = "gone"
\* The network or the daemon is gone, or the supervisor waits no longer; sshd need not notice.
Lose(s) == linked[s] /\ NoFault /\ CutOff(s)
-----------------------------------------------------------------------------
(***************************************************************************)
(* The server: sshd processes and other programs.                          *)
(***************************************************************************)
FreedFrom(s) == [a \in Addresses |-> IF holder[a] = s THEN None ELSE holder[a]]
ServerOnly == UNCHANGED <<fixed, engine, record, helper, lock, want, reply>>

\* Requests are served even when the client is gone.
Listens(s) ==
  /\ ask[s] = "listen" /\ sshd[s] = "up" /\ ServerOnly /\ UNCHANGED sshd
  /\ \/ /\ holder[addr[s]] = None /\ NoFault
        /\ holder' = [holder EXCEPT ![addr[s]] = s] /\ ask' = [ask EXCEPT ![s] = "bound"]
     \/ /\ IF holder[addr[s]] = None THEN Faulty ELSE NoFault
        /\ ask' = [ask EXCEPT ![s] = "refused"] /\ UNCHANGED holder

StopsListening(s) ==
  /\ ask[s] = "cancel" /\ sshd[s] = "up" /\ ServerOnly /\ UNCHANGED sshd
  /\ \/ NoFault /\ holder' = FreedFrom(s) /\ ask' = [ask EXCEPT ![s] = "cancelled"]
     \/ Faulty /\ ask' = [ask EXCEPT ![s] = "kept"] /\ UNCHANGED holder

Notices(s) ==
  /\ sshd[s] = "up" /\ ~linked[s] /\ sshd' = [sshd EXCEPT ![s] = "deaf"]
  /\ NoFault /\ ServerOnly /\ UNCHANGED <<holder, ask>>

Exits(s) ==
  /\ \/ sshd[s] = "deaf" /\ NoFault
     \/ sshd[s] = "up" /\ Faulty
  /\ sshd' = [sshd EXCEPT ![s] = "gone"] /\ holder' = FreedFrom(s)
  /\ ServerOnly /\ UNCHANGED ask

OtherProgram(a) ==
  /\ \/ holder[a] = None /\ Faulty /\ holder' = [holder EXCEPT ![a] = Other]
     \/ holder[a] = Other /\ NoFault /\ holder' = [holder EXCEPT ![a] = None]
  /\ ServerOnly /\ UNCHANGED <<sshd, ask>>
-----------------------------------------------------------------------------
(***************************************************************************)
(* The helper.  It works under the rule's lock file and is not stopped by  *)
(* the end of its own session until it reads its input again.              *)
(***************************************************************************)
HelperOnly == UNCHANGED <<fixed, engine, ask>>
Replies(s, code) == reply' = [reply EXCEPT ![s] = IF linked[s] THEN code ELSE None]
Goes(s, pc) == helper' = [helper EXCEPT ![s] = pc]
Takes(s, what) == helper[s] = "input" /\ want[s] = what /\ want' = [want EXCEPT ![s] = None]
Free(s) == lock[RuleOf[s]] = None
Unlocks(s) == lock' = [lock EXCEPT ![RuleOf[s]] = None]
Refuses(s, code) == Replies(s, code) /\ Goes(s, "input") /\ Unlocks(s)
Mine(s) == record[RuleOf[s]] # None /\ record[RuleOf[s]].session = s /\ record[RuleOf[s]].gen = gen[s]

Alive(t) == sshd[t] \in {"up", "deaf"}

\* Linux and Windows look for an established transport, the others for a socket still open.
Established(s) == sshd[s] = "up"
HasSocket(s) == Alive(s)
Transport(s) == IF platform \in {"linux", "windows"} THEN Established(s) ELSE HasSocket(s)

\* find_session: which SSH session this helper belongs to, before the lock is taken.
Identify(s) ==
  /\ Takes(s, "claim") /\ NoFault /\ HelperOnly /\ UNCHANGED <<record, lock, holder, sshd>>
  /\ IF Transport(s) THEN Goes(s, "claim") /\ UNCHANGED reply
     ELSE Replies(s, "ownership_mismatch") /\ UNCHANGED helper

\* Who listens at the address of an old record may be its session, as far as can be seen.
LooksOwned(old) ==
  \/ holder[old.addr] = old.session
  \/ opaque /\ old.phase = "claimed" /\ holder[old.addr] # None

\* An old listener nobody can account for, and an old session whose connection is ending.
Unaccounted(old) == holder[old.addr] # None /\ ~(Alive(old.session) /\ LooksOwned(old))
Ending(old) == Alive(old.session) /\ ~Transport(old.session)
Elsewhere(s, old) == old.addr # addr[s] /\ holder[addr[s]] # None

\* Seeded fault: the generation of the record is not compared.
UnfencedVerdict(s, old) ==
  IF Ending(old) THEN "ownership_mismatch"
  ELSE IF Unaccounted(old) \/ Elsewhere(s, old) THEN "unmanaged_conflict"
  ELSE IF Alive(old.session) THEN "end" ELSE "clear"

\* Seeded fault: the new address is only looked at once the old session has ended.
HastyVerdict(s, old) ==
  IF old.gen >= gen[s] \/ Ending(old) THEN "ownership_mismatch"
  ELSE IF Unaccounted(old) THEN "unmanaged_conflict"
  ELSE IF Alive(old.session) THEN "end" ELSE "clear"

\* The record of an earlier claim is judged: refused, to be ended first, or no obstacle.
LinuxVerdict(s, old) ==
  IF old.gen >= gen[s] \/ Ending(old) THEN "ownership_mismatch"
  ELSE IF Unaccounted(old) \/ Elsewhere(s, old) THEN "unmanaged_conflict"
  ELSE IF Alive(old.session) THEN "end" ELSE "clear"

\* The macOS helper goes through the same checks in the same order.
MacVerdict(s, old) == LinuxVerdict(s, old)

\* The Windows helper looks at a new address only after it has ended the old session.
WindowsVerdict(s, old) ==
  IF old.gen >= gen[s] \/ Ending(old) THEN "ownership_mismatch"
  ELSE IF Unaccounted(old) THEN "unmanaged_conflict"
  ELSE IF Alive(old.session) THEN "end" ELSE "clear"

\* The original helper looks at the new address before the old session.
PythonVerdict(s, old) ==
  IF old.gen >= gen[s] THEN "superseded"
  ELSE IF Elsewhere(s, old) \/ Unaccounted(old) THEN "unmanaged_conflict"
  ELSE IF Alive(old.session) THEN "end" ELSE "clear"

Verdict(s, old) ==
  CASE platform = "linux"   -> LinuxVerdict(s, old)
    [] platform = "macos"   -> MacVerdict(s, old)
    [] platform = "windows" -> WindowsVerdict(s, old)
    [] platform = "python"  -> PythonVerdict(s, old)

Judged(s) == IF record[RuleOf[s]] = None THEN "clear" ELSE Verdict(s, record[RuleOf[s]])
KeepsLock(s) == lock' = [lock EXCEPT ![RuleOf[s]] = s] /\ UNCHANGED reply
Judging(s) == helper[s] = "claim" /\ Free(s) /\ NoFault /\ HelperOnly
                /\ UNCHANGED <<record, holder, sshd, want>>

\* claim_op takes the lock, reads the record and judges it.
Judge(s) ==
  /\ Judging(s)
  /\ \/ Judged(s) = "clear" /\ Goes(s, "settle") /\ KeepsLock(s)
     \/ Judged(s) = "end" /\ Goes(s, "aim") /\ KeepsLock(s)
     \/ Judged(s) \notin {"clear", "end"} /\ Refuses(s, Judged(s))

\* What turning to the old session may come to: "ended"; "clear", gone by itself; or a refusal.
\* The process must still be there to be pinned; it is told to end, then killed, and waited for.
LinuxPins(old) ==
  IF Alive(old.session) THEN {"ended", "permission_denied"} ELSE {"permission_denied"}

\* The macOS helper sends its signals to the process number, checked before each.
MacPins(old) == LinuxPins(old)

\* A process that cannot be opened is taken for a conflict by the Windows helper.
WindowsPins(old) ==
  IF Alive(old.session) THEN {"ended", "permission_denied", "unmanaged_conflict"}
  ELSE {"unmanaged_conflict"}

\* The original helper verifies the record again once it has pinned the process.
PythonPins(old) ==
  IF Unaccounted(old)
  THEN {"unmanaged_conflict"} \cup (IF Alive(old.session) THEN {} ELSE {"clear"})
  ELSE IF Alive(old.session) THEN {"ended", "permission_denied"} ELSE {"clear"}

Pins(old) ==
  CASE platform = "linux"   -> LinuxPins(old)
    [] platform = "macos"   -> MacPins(old)
    [] platform = "windows" -> WindowsPins(old)
    [] platform = "python"  -> PythonPins(old)

\* The old session is ended, or the claim refused.
EndOld(s) ==
  /\ helper[s] = "aim" /\ HelperOnly /\ UNCHANGED <<record, want>>
  /\ LET old == record[RuleOf[s]]
     IN  \E outcome \in Pins(old) :
           /\ IF outcome # "ended" /\ "ended" \in Pins(old) THEN Faulty ELSE NoFault
           /\ IF outcome = "ended"
              THEN sshd' = [sshd EXCEPT ![old.session] = "gone"] /\ holder' = FreedFrom(old.session)
              ELSE UNCHANGED <<sshd, holder>>
           /\ IF outcome \in {"ended", "clear"} THEN Goes(s, "settle") /\ UNCHANGED <<lock, reply>>
              ELSE Refuses(s, outcome)

\* write_record: renamed into place, then made durable; what fails may fail before or after.
Writes(s, lease) ==
  LET written == record' = [record EXCEPT ![RuleOf[s]] = lease]
  IN  \/ NoFault /\ Refuses(s, "ok") /\ written
      \/ /\ Faulty /\ Refuses(s, "io_error")
         /\ UNCHANGED record \/ (written /\ platform # "windows")

\* The requested address is free: the claim is recorded, durably, before it is answered.
Settle(s) ==
  /\ helper[s] = "settle" /\ HelperOnly /\ UNCHANGED <<holder, sshd, want>>
  /\ \/ holder[addr[s]] # None /\ NoFault /\ Refuses(s, "unmanaged_conflict") /\ UNCHANGED record
     \/ /\ holder[addr[s]] = None
        /\ Writes(s, [session |-> s, gen |-> gen[s], addr |-> addr[s], phase |-> "claimed"])

\* What a confirmation looks at: the own session and transport, and who listens.
Confirmable(s) ==
  IF ~Alive(s) \/ ~Transport(s) THEN "ownership_mismatch"
  ELSE IF holder[addr[s]] = None THEN "listener_missing"
  ELSE IF holder[addr[s]] # s /\ ~opaque THEN "unmanaged_conflict" ELSE "ok"

\* The macOS helper looks for the session and for some listener before it takes the lock.
MacLooks(s) ==
  IF ~Alive(s) THEN "ownership_mismatch"
  ELSE IF holder[addr[s]] = None THEN "listener_missing" ELSE "ok"
ConfirmLooks(s) ==
  LET seen == IF platform = "macos" THEN MacLooks(s) ELSE Confirmable(s)
  IN  /\ Takes(s, "confirm") /\ platform \in {"macos", "windows"}
      /\ NoFault /\ HelperOnly /\ UNCHANGED <<record, lock, holder, sshd>>
      /\ IF seen = "ok" THEN Goes(s, "checked") /\ UNCHANGED reply
         ELSE Replies(s, seen) /\ UNCHANGED helper

\* Under the lock: macOS asks whose listener it is, Windows only whether there is one to record.
MacConfirms(s) == IF holder[addr[s]] # s THEN "unmanaged_conflict" ELSE "ok"
WindowsConfirms(s) == IF holder[addr[s]] = None THEN "io_error" ELSE "ok"

\* confirm_op under the lock.
Confirm(s) ==
  LET seen == IF ~Mine(s) THEN "superseded"
              ELSE CASE platform = "macos" -> MacConfirms(s)
                     [] platform = "windows" -> WindowsConfirms(s)
                     [] platform \in {"linux", "python"} -> Confirmable(s)
  IN  /\ \/ helper[s] = "checked" /\ UNCHANGED want
         \/ Takes(s, "confirm") /\ platform \in {"linux", "python"}
      /\ Free(s) /\ HelperOnly /\ UNCHANGED <<holder, sshd>>
      /\ \/ seen # "ok" /\ NoFault /\ Refuses(s, seen) /\ UNCHANGED record
         \/ seen = "ok" /\ Writes(s, [record[RuleOf[s]] EXCEPT !.phase = "confirmed"])

\* release_op: the record goes, and the helper with it.
Release(s) ==
  /\ Takes(s, "release") /\ Free(s) /\ HelperOnly /\ UNCHANGED <<lock, holder, sshd>>
  /\ \/ /\ Mine(s) /\ NoFault /\ record' = [record EXCEPT ![RuleOf[s]] = None]
        /\ Replies(s, "ok") /\ Goes(s, "gone")
     \/ /\ UNCHANGED <<record, helper>>
        /\ \/ Mine(s) /\ Faulty /\ Replies(s, "io_error")
           \/ ~Mine(s) /\ NoFault /\ Replies(s, "superseded")

\* An operation that does not get the rule's lock file.
LockRefused(s) ==
  /\ HelperOnly /\ UNCHANGED <<record, lock, holder, sshd>>
  /\ \/ helper[s] \in {"claim", "checked"} /\ UNCHANGED want
     \/ Takes(s, "release")
     \/ Takes(s, "confirm") /\ platform \in {"linux", "python"}
  /\ Replies(s, "permission_denied") /\ Goes(s, "input")
\* The lease directory is not there, or not private.
RegistryFails(s) == Faulty /\ LockRefused(s)
\* Windows opens the lock file exclusively and does not wait for it.
LockBusy(s) == platform = "windows" /\ ~Free(s) /\ NoFault /\ LockRefused(s)

\* End of input, or a death; the system drops the lock.
HelperEnds(s) ==
  /\ \/ helper[s] = "input" /\ want[s] = None /\ sshd[s] \in {"deaf", "gone"} /\ NoFault
     \/ helper[s] \notin {"none", "gone"} /\ Faulty
  /\ Goes(s, "gone")
  /\ lock' = [lock EXCEPT ![RuleOf[s]] = IF @ = s THEN None ELSE @]
  /\ want' = [want EXCEPT ![s] = None]
  /\ HelperOnly /\ UNCHANGED <<record, holder, sshd, reply>>
-----------------------------------------------------------------------------
Init ==
  /\ platform \in Platforms
  /\ opaque \in (IF platform \in {"linux", "python"} THEN BOOLEAN ELSE {FALSE})
  /\ saved = [r \in Rules |-> 0] /\ record = [r \in Rules |-> None] /\ lock = [r \in Rules |-> None]
  /\ holder = [a \in Addresses |-> None]
  /\ gen = [s \in Sessions |-> 0] /\ addr = [s \in Sessions |-> None]
  /\ worker = [s \in Sessions |-> "none"] /\ stop = [s \in Sessions |-> FALSE]
  /\ after = [s \in Sessions |-> "over"] /\ refused = [s \in Sessions |-> 0]
  /\ linked = [s \in Sessions |-> FALSE] /\ sshd = [s \in Sessions |-> "none"]
  /\ ask = [s \in Sessions |-> None] /\ want = [s \in Sessions |-> None]
  /\ helper = [s \in Sessions |-> "none"] /\ reply = [s \in Sessions |-> None]
  /\ faults = 0

WorkerStep(s) ==
  \/ HelperStarts(s) \/ AbandonClaim(s) \/ ClaimAnswered(s) \/ ListenAccepted(s)
  \/ ListenRefused(s) \/ BackoffEnds(s) \/ ConfirmAnswered(s) \/ StopServing(s) \/ HelperLost(s)
  \/ ListenerCancelled(s) \/ ReleaseAnswered(s) \/ HangUp(s)
SshdStep(s) == Listens(s) \/ StopsListening(s)
HelperStep(s) ==
  \/ Identify(s) \/ Judge(s) \/ EndOld(s) \/ Settle(s) \/ ConfirmLooks(s) \/ Confirm(s)
  \/ Release(s) \/ RegistryFails(s) \/ LockBusy(s) \/ HelperEnds(s)

Next ==
  \/ \E s \in Sessions :
       \/ Reserve(s) \/ Cancel(s) \/ HelperFails(s) \/ LeaseCutShort(s) \/ Lose(s)
       \/ Notices(s) \/ Exits(s) \/ WorkerStep(s) \/ SshdStep(s) \/ HelperStep(s)
  \/ \E a \in Addresses : OtherProgram(a)

Spec == Init /\ [][Next]_vars
-----------------------------------------------------------------------------
(***************************************************************************)
(* Properties.                                                             *)
(***************************************************************************)
TypeOK ==
  /\ platform \in Platforms /\ opaque \in BOOLEAN
  /\ saved \in [Rules -> Nat] /\ record \in [Rules -> Lease \cup {None}]
  /\ lock \in [Rules -> Sessions \cup {None}]
  /\ holder \in [Addresses -> Sessions \cup {None, Other}]
  /\ gen \in [Sessions -> Nat] /\ addr \in [Sessions -> Addresses \cup {None}]
  /\ worker \in [Sessions -> Waiting \cup Ended \cup {"none", "closed"}]
  /\ stop \in [Sessions -> BOOLEAN] /\ after \in [Sessions -> Ended]
  /\ refused \in [Sessions -> 0..3] /\ linked \in [Sessions -> BOOLEAN]
  /\ sshd \in [Sessions -> {"none", "up", "deaf", "gone"}]
  /\ ask \in [Sessions -> Asks \cup {None}] /\ want \in [Sessions -> Wants \cup {None}]
  /\ helper \in [Sessions -> HelperPc] /\ reply \in [Sessions -> Codes \cup {None}]
  /\ faults \in 0..MaxFaults

Listening == {s \in Sessions : \E a \in Addresses : holder[a] = s}

Fence == INSTANCE LeaseFence WITH
  Generations <- 1..Cardinality(Sessions),
  owner <- [r \in Rules |-> IF record[r] = None THEN None
                            ELSE [session |-> record[r].session, gen |-> record[r].gen]],
  listening <- Listening

\* Whatever is lost, late or repeated: a rule's listener belongs to its newest recorded claim, a
\* claim is recorded only when no older session of the rule listens, and a record is removed only
\* when its session does not.  So a listener left behind is always found by the next claim.
KeepsFence == Fence!Spec

\* A rule reported as established has its listener open, recorded and confirmed, unless the
\* server's process has gone and the engine has not noticed yet.
ServingIsConfirmed ==
  \A s \in Sessions : worker[s] = "serving" /\ sshd[s] = "up" /\ linked[s] =>
    /\ holder[addr[s]] = s
    /\ Mine(s) /\ record[RuleOf[s]].phase = "confirmed"

\* A claim never ends the session of a worker that is still wanted: only retired predecessors.
EndsOnlyRetired ==
  [][\A s \in Sessions : \A t \in Siblings(s) :
       helper[t] = "aim" /\ helper'[t] = "settle" /\ Alive(s) /\ sshd'[s] # sshd[s]
         => gen[s] < gen[t] /\ Retired(s)]_vars

\* A claim sets out to end an old session although it cannot have the address it wants.
EndsInVain(s) ==
  /\ helper[s] = "claim" /\ helper'[s] = "aim" /\ addr[s] # record[RuleOf[s]].addr
  /\ holder[addr[s]] \notin {None, record[RuleOf[s]].session}

\* A conflict over a new address never costs the rule its old, working session.
SparesOldSession == [][platform # "windows" => \A s \in Sessions : ~EndsInVain(s)]_vars
=============================================================================
