------------------------------- MODULE AuthGate -------------------------------
(***************************************************************************)
(* The web password: its hash in web-auth.hash and in memory, the read     *)
(* lock under which the middleware authenticates a request and runs its    *)
(* handler, and the write lock of the handler that sets the password       *)
(* (auth.rs, api.rs authenticate, app.rs, main.rs).  A hash stands for its *)
(* password.  Requests that need no authentication (the UI bundle) or are  *)
(* refused without (another origin) never meet this state.                 *)
(***************************************************************************)
EXTENDS Naturals, FiniteSets, SequencesExt

CONSTANTS
    Requests,   \* the requests the daemon serves at a time
    Passwords,
    Token,      \* the content of web-auth.secret
    Calls,      \* the requests somebody may send
    MaxFaults,  \* bound on crashes and failed writes
    NoHash,     \* no file, None
    Torn,       \* a file of which a part was written, no valid hash
    NoCall, NoWriter

Call == [from : {"socket", "loopback", "remote"},
         header : {"none", "bearer", "password", "basic"},
         value : Passwords \cup {Token, NoHash},
         route : {"password", "status", "other"},
         password : Passwords]

ASSUME PasswordsAssumption ==
    /\ {NoHash, Torn, Token} \cap Passwords = {} /\ NoHash # Torn
    /\ Token \notin {NoHash, Torn}
ASSUME CallsAssumption == Calls \subseteq Call /\ NoCall \notin Call
ASSUME RequestsAssumption == NoWriter \notin Requests
ASSUME BoundAssumption == MaxFaults \in Nat

VARIABLES
    up,         \* whether the daemon serves
    exempt,     \* --allow-unauthenticated
    file,       \* web-auth.hash
    memory,     \* AuthState's password_hash
    readers,    \* the requests whose middleware holds its read guard
    writer,     \* the request that holds the write guard
    waiting,    \* the lock's queue
    pc, call,   \* of each request
    faults,
    acked,      \* history: the password that was last reported as set
    disturbed   \* history: a later attempt to set it failed or was cut short

vars == <<up, exempt, file, memory, readers, writer, waiting, pc, call, faults,
          acked, disturbed>>

stored == <<file, memory, acked, disturbed>>
lock == <<readers, writer, waiting>>

Goto(r, location) == pc' = [pc EXCEPT ![r] = location] /\ UNCHANGED call

(* Mutant: a dropped request stays in the queue.                           *)
LeaveQueued(r) ==
    /\ pc' = [pc EXCEPT ![r] = "idle"]
    /\ call' = [call EXCEPT ![r] = NoCall]
    /\ readers' = readers \ {r}
    /\ writer' = IF writer = r THEN NoWriter ELSE writer
    /\ UNCHANGED waiting

(* The request ends: its guards are dropped and it leaves the queue.       *)
Leave(r) ==
    /\ pc' = [pc EXCEPT ![r] = "idle"]
    /\ call' = [call EXCEPT ![r] = NoCall]
    /\ readers' = readers \ {r}
    /\ writer' = IF writer = r THEN NoWriter ELSE writer
    /\ waiting' = RemoveFirst(waiting, r)

Fault == faults < MaxFaults /\ faults' = faults + 1

------------------------------------------------------------------------------
(* verify_credential, verify_token, verify_password                        *)
Accepted(hash, c) ==
    \/ c.header \in {"bearer", "password"} /\ c.value = Token
    \/ c.header \in {"password", "basic"} /\ c.value \in Passwords /\ c.value = hash

(* local_auth_exempt; the control socket has no peer address.              *)
LocalExempt(hash, c) == c.from = "socket" \/ (hash = NoHash /\ c.from = "loopback")

Admits(hash, c) == LocalExempt(hash, c) \/ Accepted(hash, c)

(* Mutant: what is no hash counts as no password.                          *)
LoadedValid(content) == IF content = Torn THEN NoHash ELSE content

(* load_or_initialize: whatever the file holds is the hash.  Left out: a   *)
(* file that cannot be read (auth.rs:23) counts as none, and the first     *)
(* start writes the secret, empty if it is cut short (auth.rs:26-31).      *)
Loaded(content) == content

------------------------------------------------------------------------------
Init ==
    /\ up = FALSE /\ exempt = FALSE
    /\ file = NoHash /\ memory = NoHash
    /\ readers = {} /\ writer = NoWriter /\ waiting = <<>>
    /\ pc = [r \in Requests |-> "idle"] /\ call = [r \in Requests |-> NoCall]
    /\ faults = 0 /\ acked = NoHash /\ disturbed = FALSE

(* Runtime::open, with --allow-unauthenticated or without.                 *)
Start(open) ==
    /\ ~up /\ up' = TRUE /\ exempt' = open
    /\ memory' = Loaded(file)
    /\ UNCHANGED <<file, lock, pc, call, faults, acked, disturbed>>

(* Mutant: the password of the command line is not persisted.              *)
StartWithMemory(password) ==
    /\ ~up /\ up' = TRUE /\ exempt' = FALSE
    /\ memory' = password /\ acked' = password /\ disturbed' = FALSE
    /\ UNCHANGED <<file, lock, pc, call, faults>>

(* With --web-password, which main allows only without the other.          *)
StartWith(password) ==
    /\ ~up
    /\ \/ /\ up' = TRUE /\ exempt' = FALSE
          /\ file' = password /\ memory' = password
          /\ acked' = password /\ disturbed' = FALSE
          /\ UNCHANGED faults
       \/ /\ Fault /\ UNCHANGED <<up, exempt, memory, acked>>
          /\ file' \in {file, Torn, password} /\ disturbed' = TRUE
    /\ UNCHANGED <<lock, pc, call>>

Crash ==
    /\ up /\ Fault /\ up' = FALSE
    /\ memory' = NoHash
    /\ readers' = {} /\ writer' = NoWriter /\ waiting' = <<>>
    /\ pc' = [r \in Requests |-> "idle"] /\ call' = [r \in Requests |-> NoCall]
    /\ file' \in {file} \cup {t \in {Torn} : \E r \in Requests : pc[r] = "write"}
    /\ disturbed' = (disturbed \/ \E r \in Requests : pc[r] \in {"write", "store"})
    /\ UNCHANGED <<exempt, acked>>

Arrive(r, c) ==
    /\ up /\ pc[r] = "idle"
    /\ pc' = [pc EXCEPT ![r] = "gate"] /\ call' = [call EXCEPT ![r] = c]
    /\ UNCHANGED <<up, exempt, stored, lock, faults>>

------------------------------------------------------------------------------
(* tokio's RwLock is fair: who asks waits for everybody that asked before. *)
Enqueue(r, location) ==
    /\ waiting' = Append(waiting, r)
    /\ Goto(r, location)
    /\ UNCHANGED <<readers, writer>>

First(r) == waiting # <<>> /\ Head(waiting) = r

MayRead(r) == First(r) /\ writer = NoWriter
MayWrite(r) == First(r) /\ writer = NoWriter /\ readers = {}

Gate(r) ==
    /\ pc[r] = "gate"
    /\ IF exempt THEN Goto(r, "handler") /\ UNCHANGED lock ELSE Enqueue(r, "ask")
    /\ UNCHANGED <<up, exempt, stored, faults>>

(* Mutant: the guard is dropped before the handler runs.                   *)
AuthenticateOnly(r) ==
    /\ pc[r] = "ask" /\ MayRead(r)
    /\ IF Admits(memory, call[r])
       THEN /\ Goto(r, "handler")
            /\ waiting' = Tail(waiting) /\ UNCHANGED <<readers, writer>>
       ELSE Leave(r)
    /\ UNCHANGED <<up, exempt, stored, faults>>

(* The guard lives until the handler has answered.                         *)
Authenticate(r) ==
    /\ pc[r] = "ask" /\ MayRead(r)
    /\ IF Admits(memory, call[r])
       THEN /\ Goto(r, "handler")
            /\ waiting' = Tail(waiting) /\ readers' = readers \cup {r}
            /\ UNCHANGED writer
       ELSE Leave(r)
    /\ UNCHANGED <<up, exempt, stored, faults>>

Handle(r) ==
    /\ pc[r] = "handler"
    /\ CASE call[r].route = "password" -> Enqueue(r, "ask_write")
         [] call[r].route = "status" -> Enqueue(r, "ask_read")
         [] OTHER -> Leave(r)
    /\ UNCHANGED <<up, exempt, stored, faults>>

(* status and auth_status look once more whether there is a password.      *)
ReadAgain(r) ==
    /\ pc[r] = "ask_read" /\ MayRead(r)
    /\ Leave(r)
    /\ UNCHANGED <<up, exempt, stored, faults>>

LockToWrite(r) ==
    /\ pc[r] = "ask_write" /\ MayWrite(r)
    /\ waiting' = Tail(waiting) /\ writer' = r
    /\ Goto(r, "write")
    /\ UNCHANGED <<up, exempt, stored, readers, faults>>

(* AuthState::set_password: the file, then the hash in memory.             *)
WriteFile(r) ==
    /\ pc[r] = "write"
    /\ file' = call[r].password
    /\ Goto(r, "store")
    /\ UNCHANGED <<up, exempt, lock, memory, faults, acked, disturbed>>

WriteFails(r) ==
    /\ pc[r] = "write"
    /\ Fault /\ Leave(r)
    /\ file' \in {file, Torn, call[r].password} /\ disturbed' = TRUE
    /\ UNCHANGED <<up, exempt, memory, acked>>

Store(r) ==
    /\ pc[r] = "store"
    /\ memory' = call[r].password
    /\ acked' = call[r].password /\ disturbed' = FALSE
    /\ Leave(r)
    /\ UNCHANGED <<up, exempt, file, faults>>

(* The handler is dropped where it waits.                                  *)
Disconnect(r) ==
    /\ pc[r] \in {"ask", "handler", "ask_read", "ask_write"}
    /\ Leave(r)
    /\ UNCHANGED <<up, exempt, stored, faults>>

Step(r) ==
    \/ Gate(r) \/ Authenticate(r) \/ Handle(r) \/ ReadAgain(r)
    \/ LockToWrite(r) \/ WriteFile(r) \/ Store(r)

Next ==
    \/ \E open \in BOOLEAN : Start(open)
    \/ \E password \in Passwords : StartWith(password)
    \/ Crash
    \/ \E r \in Requests : \/ \E c \in Calls : Arrive(r, c)
                           \/ Step(r) \/ WriteFails(r) \/ Disconnect(r)

(* The runtime runs every task that can go on.                             *)
Fairness == \A r \in Requests : WF_vars(Step(r))

(* Nobody waits for ever for the answer to a new password.                 *)
Patience ==
    \A r \in Requests : WF_vars(call[r] # NoCall /\ call[r].route = "password" /\ Disconnect(r))

PatientSpec == Init /\ [][Next]_vars /\ Fairness

Spec == PatientSpec /\ Patience

------------------------------------------------------------------------------
Locations == {"idle", "gate", "ask", "handler", "ask_read", "ask_write", "write", "store"}

Asking == {"ask", "ask_read", "ask_write"}

(* With the types, that the lock's guards and its queue are those of the   *)
(* requests that run.                                                      *)
TypeOK ==
    /\ up \in BOOLEAN /\ exempt \in BOOLEAN /\ disturbed \in BOOLEAN
    /\ file \in Passwords \cup {NoHash, Torn} /\ memory \in Passwords \cup {NoHash, Torn}
    /\ readers \subseteq Requests /\ writer \in Requests \cup {NoWriter}
    /\ waiting \in Seq(Requests)
    /\ pc \in [Requests -> Locations]
    /\ call \in [Requests -> Calls \cup {NoCall}]
    /\ faults \in 0 .. MaxFaults /\ acked \in Passwords \cup {NoHash}
    /\ \A r \in Requests :
         /\ pc[r] = "idle" <=> call[r] = NoCall
         /\ r \in readers => pc[r] \notin {"idle", "gate", "ask"}
         /\ (\E i \in DOMAIN waiting : waiting[i] = r) <=> pc[r] \in Asking

(* Once a password was reported as set, requests from the host itself need *)
(* it, across restarts and whatever a crash left in the file               *)
(* (auth.rs:22-24, 73; api.rs:146).                                        *)
StaysSecured == acked # NoHash /\ up => memory # NoHash

(* A password that was reported as set is the one in memory and the one a  *)
(* restart would read, unless a later attempt to change it failed or was   *)
(* cut short (auth.rs:73-75, app.rs:38-44).                                *)
Durable ==
    ~disturbed => \/ file = acked /\ (up => memory = acked)
                  \/ up /\ memory = acked /\ \E r \in Requests : pc[r] = "store"

(* While a handler runs, the credential that admitted its request is still *)
(* one: no new password takes effect under it (api.rs:129-135).            *)
VerdictStillTrue ==
    \A r \in Requests :
        pc[r] \notin {"idle", "gate", "ask"} /\ ~exempt => Admits(memory, call[r])

(* Every request is answered, whatever waits for the lock before it, if    *)
(* the clients that set a password give up in the end (api.rs:129, 167,    *)
(* 179, 245; see PasswordAnswered).                                        *)
Answered ==
    \A r \in Requests : pc[r] # "idle" ~> pc[r] = "idle"

(* "Then configure a 12+ character password in Settings" (README.md:43): a *)
(* request that sets the password is answered, without its client having   *)
(* to give up.                                                             *)
PasswordAnswered ==
    \A r \in Requests :
        (call[r] # NoCall /\ call[r].route = "password") ~> pc[r] = "idle"
===============================================================================
