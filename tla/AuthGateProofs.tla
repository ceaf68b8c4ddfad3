--------------------------- MODULE AuthGateProofs ---------------------------
(***************************************************************************)
(* Theorems about AuthGate: for any number of requests, passwords, calls   *)
(* and faults.                                                             *)
(***************************************************************************)
EXTENDS AuthGate, SequenceLemmas

Running == {"handler", "ask_read", "ask_write", "write", "store"}

Hashes == Passwords \cup {NoHash, Torn}

Typed ==
    /\ file \in Hashes /\ memory \in Hashes
    /\ readers \subseteq Requests /\ writer \in Requests \cup {NoWriter}
    /\ pc \in [Requests -> Locations]
    /\ call \in [Requests -> Calls \cup {NoCall}]
    /\ \A r \in Requests : pc[r] # "idle" => call[r] \in Calls
    /\ ~up => \A r \in Requests : pc[r] = "idle"

(* The guards exclude each other, and a password is written under one.     *)
Locked ==
    /\ writer # NoWriter => readers = {}
    /\ \A r \in Requests :
         /\ pc[r] \in {"write", "store"} => writer = r
         /\ pc[r] = "store" => file = call[r].password
         /\ pc[r] \in Running /\ ~exempt => r \in readers /\ Admits(memory, call[r])

(* What was acknowledged is in the file, in some form.                     *)
Secured == acked # NoHash => file # NoHash /\ (up => memory # NoHash)

AuthInv == Typed /\ Locked /\ Secured /\ Durable

------------------------------------------------------------------------------
(* A request that sets a password sends one.                               *)
LEMMA PasswordSent ==
    ASSUME Typed, NEW r \in Requests, pc[r] # "idle"
    PROVE  call[r].password \in Passwords /\ call[r].password # NoHash
  BY CallsAssumption, PasswordsAssumption DEF Typed, Call

(* Whoever writes waits for the handlers that another password would cut   *)
(* off: under authentication there is no writer at all.                    *)
LEMMA WriterIsExempt ==
    ASSUME Typed, Locked, NEW r \in Requests, pc[r] \in {"write", "store"}
    PROVE  exempt /\ writer = r /\ readers = {}
           /\ \A q \in Requests \ {r} : pc[q] \notin {"write", "store"}
  BY RequestsAssumption DEF Typed, Locked, Running

(* A request that ends without having touched the password changes nothing *)
(* that the invariant says of the others.                                  *)
LEMMA LeaveStep ==
    ASSUME AuthInv, NEW r \in Requests, Leave(r), UNCHANGED <<up, exempt, stored>>,
           pc[r] \notin {"write", "store"}
    PROVE  AuthInv'
  <1>1. /\ pc' = [pc EXCEPT ![r] = "idle"] /\ call' = [call EXCEPT ![r] = NoCall]
        /\ readers' = readers \ {r}
        /\ writer' = IF writer = r THEN NoWriter ELSE writer
        /\ UNCHANGED <<up, exempt, file, memory, acked, disturbed>>
    BY DEF Leave, stored
  <1>2. \A q \in Requests \ {r} : pc'[q] = pc[q] /\ call'[q] = call[q]
    BY <1>1 DEF AuthInv, Typed
  <1>3. pc'[r] = "idle" /\ call'[r] = NoCall
    BY <1>1 DEF AuthInv, Typed
  <1>4. Typed'
    BY <1>1, <1>2, <1>3 DEF AuthInv, Typed, Locations
  <1>5. Locked'
    BY <1>1, <1>2, <1>3 DEF AuthInv, Locked, Running
  <1>6. Secured'
    BY <1>1 DEF AuthInv, Secured
  <1>7. Durable'
    BY <1>1, <1>2 DEF AuthInv, Durable
  <1> QED BY <1>4, <1>5, <1>6, <1>7 DEF AuthInv

(* A request that goes on without touching the password, the lock's guards *)
(* or the handlers.                                                        *)
LEMMA GotoStep ==
    ASSUME AuthInv, NEW r \in Requests, NEW location \in Locations, Goto(r, location),
           UNCHANGED <<up, exempt, stored, readers, writer>>,
           pc[r] \notin {"idle", "store"}, location \notin {"idle", "write", "store"},
           pc[r] \in Running \/ exempt \/ location \notin Running
    PROVE  AuthInv'
  <1>1. /\ pc' = [pc EXCEPT ![r] = location]
        /\ UNCHANGED <<up, exempt, file, memory, acked, disturbed, readers, writer, call>>
    BY DEF Goto, stored
  <1>2. \A q \in Requests \ {r} : pc'[q] = pc[q]
    BY <1>1 DEF AuthInv, Typed
  <1>3. pc'[r] = location
    BY <1>1 DEF AuthInv, Typed
  <1>4. Typed'
    BY <1>1, <1>2, <1>3 DEF AuthInv, Typed
  <1>5. Locked'
    BY <1>1, <1>2, <1>3 DEF AuthInv, Locked
  <1>6. Secured'
    BY <1>1 DEF AuthInv, Secured
  <1>7. Durable'
    BY <1>1, <1>2 DEF AuthInv, Durable
  <1> QED BY <1>4, <1>5, <1>6, <1>7 DEF AuthInv

------------------------------------------------------------------------------
(* The daemon starts, with or without a password, or does not.             *)
LEMMA StartStep ==
    ASSUME AuthInv,
           (\E open \in BOOLEAN : Start(open)) \/ (\E p \in Passwords : StartWith(p))
    PROVE  AuthInv'
  <1>1. ~up /\ \A r \in Requests : pc[r] = "idle"
    BY DEF AuthInv, Typed, Start, StartWith
  <1>2. UNCHANGED <<readers, writer, pc, call>>
    BY DEF Start, StartWith, lock
  <1>3. CASE \E open \in BOOLEAN : Start(open)
    <2>1. up' /\ memory' = file /\ UNCHANGED <<file, acked, disturbed>>
      BY <1>3 DEF Start, Loaded
    <2>2. Typed' /\ Locked'
      BY <1>1, <1>2, <2>1 DEF AuthInv, Typed, Locked, Running
    <2>3. Secured' /\ Durable'
      BY <1>1, <1>2, <2>1 DEF AuthInv, Secured, Durable
    <2> QED BY <2>2, <2>3 DEF AuthInv
  <1>4. ASSUME NEW p \in Passwords, StartWith(p) PROVE AuthInv'
    <2>1. \/ up' /\ file' = p /\ memory' = p /\ acked' = p
          \/ /\ file' \in {file, Torn, p} /\ disturbed' = TRUE
             /\ UNCHANGED <<up, memory, acked>>
      BY <1>4 DEF StartWith
    <2>2. Typed'
      BY <1>1, <1>2, <2>1 DEF AuthInv, Typed, Hashes
    <2>3. Locked'
      BY <1>1, <1>2 DEF AuthInv, Locked, Running
    <2>4. Secured' /\ Durable'
      BY <1>1, <2>1, PasswordsAssumption DEF AuthInv, Secured, Durable
    <2> QED BY <2>2, <2>3, <2>4 DEF AuthInv
  <1> QED BY <1>3, <1>4

(* The daemon ends, perhaps while the file is written.                     *)
LEMMA CrashStep ==
    ASSUME AuthInv, Crash
    PROVE  AuthInv'
  <1>1. /\ ~up' /\ memory' = NoHash /\ readers' = {} /\ writer' = NoWriter
        /\ pc' = [r \in Requests |-> "idle"] /\ call' = [r \in Requests |-> NoCall]
        /\ acked' = acked
        /\ file' \in {file} \cup {t \in {Torn} : \E r \in Requests : pc[r] = "write"}
        /\ disturbed' = (disturbed \/ \E r \in Requests : pc[r] \in {"write", "store"})
    BY DEF Crash
  <1>2. Typed' /\ Locked'
    BY <1>1 DEF AuthInv, Typed, Locked, Running, Hashes, Locations
  <1>3. Secured'
    BY <1>1, PasswordsAssumption DEF AuthInv, Secured
  <1>4. Durable'
    BY <1>1 DEF AuthInv, Durable
  <1> QED BY <1>2, <1>3, <1>4 DEF AuthInv

(* A request arrives while the daemon serves.                              *)
LEMMA ArriveStep ==
    ASSUME AuthInv, NEW r \in Requests, NEW c \in Calls, Arrive(r, c)
    PROVE  AuthInv'
  <1>1. /\ up /\ pc[r] = "idle"
        /\ pc' = [pc EXCEPT ![r] = "gate"] /\ call' = [call EXCEPT ![r] = c]
        /\ UNCHANGED <<up, exempt, file, memory, acked, disturbed, readers, writer>>
    BY DEF Arrive, stored, lock
  <1>2. \A q \in Requests \ {r} : pc'[q] = pc[q] /\ call'[q] = call[q]
    BY <1>1 DEF AuthInv, Typed
  <1>3. pc'[r] = "gate" /\ call'[r] = c
    BY <1>1 DEF AuthInv, Typed
  <1>4. Typed'
    BY <1>1, <1>2, <1>3 DEF AuthInv, Typed, Locations
  <1>5. Locked'
    BY <1>1, <1>2, <1>3 DEF AuthInv, Locked, Running
  <1>6. Secured' /\ Durable'
    BY <1>1, <1>2 DEF AuthInv, Secured, Durable
  <1> QED BY <1>4, <1>5, <1>6 DEF AuthInv

(* A request is admitted while nobody writes.                              *)
LEMMA AuthenticateStep ==
    ASSUME AuthInv, NEW r \in Requests, Authenticate(r)
    PROVE  AuthInv'
  <1>1. CASE Admits(memory, call[r])
    <2>1. /\ pc[r] = "ask" /\ writer = NoWriter
          /\ pc' = [pc EXCEPT ![r] = "handler"] /\ readers' = readers \cup {r}
          /\ UNCHANGED <<up, exempt, file, memory, acked, disturbed, writer, call>>
      BY <1>1 DEF Authenticate, MayRead, Goto, stored
    <2>2. \A q \in Requests \ {r} : pc'[q] = pc[q]
      BY <2>1 DEF AuthInv, Typed
    <2>3. pc'[r] = "handler"
      BY <2>1 DEF AuthInv, Typed
    <2>4. Typed'
      BY <2>1, <2>2, <2>3 DEF AuthInv, Typed, Locations
    <2>5. Locked'
      BY <1>1, <2>1, <2>2, <2>3 DEF AuthInv, Locked, Running
    <2>6. Secured' /\ Durable'
      BY <2>1, <2>2 DEF AuthInv, Secured, Durable
    <2> QED BY <2>4, <2>5, <2>6 DEF AuthInv
  <1>2. CASE ~Admits(memory, call[r])
    BY <1>2, LeaveStep DEF Authenticate
  <1> QED BY <1>1, <1>2

(* The write guard is taken when no middleware holds a read guard.         *)
LEMMA LockToWriteStep ==
    ASSUME AuthInv, NEW r \in Requests, LockToWrite(r)
    PROVE  AuthInv'
  <1>1. /\ pc[r] = "ask_write" /\ writer = NoWriter /\ readers = {} /\ writer' = r
        /\ pc' = [pc EXCEPT ![r] = "write"]
        /\ UNCHANGED <<up, exempt, file, memory, acked, disturbed, readers, call>>
    BY DEF LockToWrite, MayWrite, Goto, stored
  <1>2. \A q \in Requests \ {r} : pc'[q] = pc[q] /\ pc[q] \notin {"write", "store"}
    BY <1>1, RequestsAssumption DEF AuthInv, Typed, Locked
  <1>3. pc'[r] = "write"
    BY <1>1 DEF AuthInv, Typed
  <1>4. Typed'
    BY <1>1, <1>2, <1>3 DEF AuthInv, Typed, Locations
  <1>5. Locked'
    BY <1>1, <1>2, <1>3 DEF AuthInv, Locked, Running
  <1>6. Secured' /\ Durable'
    BY <1>1, <1>2 DEF AuthInv, Secured, Durable
  <1> QED BY <1>4, <1>5, <1>6 DEF AuthInv

(* The file and the memory are written by one request at a time, and only  *)
(* where no request is under authentication.                               *)
LEMMA SetPasswordStep ==
    ASSUME AuthInv, NEW r \in Requests, WriteFile(r) \/ WriteFails(r) \/ Store(r)
    PROVE  AuthInv'
  <1>1. pc[r] \in {"write", "store"}
    BY DEF WriteFile, WriteFails, Store
  <1>2. /\ exempt /\ writer = r /\ readers = {}
        /\ \A q \in Requests \ {r} : pc[q] \notin {"write", "store"}
    BY <1>1, WriterIsExempt DEF AuthInv
  <1>3. call[r].password \in Passwords /\ call[r].password # NoHash
    BY <1>1, PasswordSent DEF AuthInv
  <1>4. up
    BY <1>1 DEF AuthInv, Typed
  <1>5. CASE WriteFile(r)
    <2>1. /\ file' = call[r].password /\ pc' = [pc EXCEPT ![r] = "store"]
          /\ UNCHANGED <<up, exempt, memory, acked, disturbed, readers, writer, call>>
      BY <1>5 DEF WriteFile, Goto, lock
    <2>2. \A q \in Requests \ {r} : pc'[q] = pc[q]
      BY <2>1 DEF AuthInv, Typed
    <2>3. pc'[r] = "store"
      BY <2>1 DEF AuthInv, Typed
    <2>4. Typed'
      BY <1>1, <1>3, <2>1, <2>2, <2>3 DEF AuthInv, Typed, Locations, Hashes
    <2>5. Locked'
      BY <1>1, <1>2, <2>1, <2>2, <2>3 DEF AuthInv, Locked
    <2>6. Secured'
      BY <1>3, <2>1 DEF AuthInv, Secured
    <2>7. ~disturbed => memory = acked
      BY <1>4 DEF AuthInv, Durable
    <2>8. Durable'
      BY <1>4, <2>1, <2>3, <2>7 DEF Durable
    <2> QED BY <2>4, <2>5, <2>6, <2>8 DEF AuthInv
  <1>6. CASE WriteFails(r) \/ Store(r)
    <2>1. /\ pc' = [pc EXCEPT ![r] = "idle"] /\ call' = [call EXCEPT ![r] = NoCall]
          /\ readers' = {} /\ writer' = NoWriter /\ UNCHANGED <<up, exempt>>
      BY <1>2, <1>6 DEF WriteFails, Store, Leave
    <2>2. \A q \in Requests \ {r} : pc'[q] = pc[q] /\ call'[q] = call[q]
      BY <2>1 DEF AuthInv, Typed
    <2>3. pc'[r] = "idle"
      BY <2>1 DEF AuthInv, Typed
    <2>4. \/ /\ file' \in {file, Torn, call[r].password} /\ disturbed' = TRUE
             /\ UNCHANGED <<memory, acked>>
          \/ /\ file' = file /\ file = call[r].password
             /\ memory' = call[r].password /\ acked' = call[r].password
      BY <1>6 DEF AuthInv, Locked, WriteFails, Store
    <2>5. Typed'
      BY <1>1, <1>3, <1>4, <2>1, <2>2, <2>3, <2>4 DEF AuthInv, Typed, Locations, Hashes
    <2>6. Locked'
      BY <1>2, <2>1, <2>2, <2>3 DEF AuthInv, Locked, Running
    <2>7. Secured' /\ Durable'
      <3>1. CASE disturbed' = TRUE /\ UNCHANGED <<memory, acked>>
                 /\ file' \in {file, Torn, call[r].password}
        BY <1>3, <2>1, <3>1, PasswordsAssumption DEF AuthInv, Secured, Durable
      <3>2. CASE file' = call[r].password /\ memory' = file' /\ acked' = file'
        BY <1>3, <3>2 DEF Secured, Durable
      <3> QED BY <2>4, <3>1, <3>2
    <2> QED BY <2>5, <2>6, <2>7 DEF AuthInv
  <1> QED BY <1>5, <1>6

(* Every step keeps the invariant.                                         *)
LEMMA AuthStep == AuthInv /\ [Next]_vars => AuthInv'
  <1> SUFFICES ASSUME AuthInv, [Next]_vars PROVE AuthInv'
    OBVIOUS
  <1>1. ASSUME NEW r \in Requests, Step(r) PROVE AuthInv'
    <2>1. CASE Gate(r)
      <3>1. CASE exempt
        BY <2>1, <3>1, GotoStep DEF Gate, lock, Locations
      <3>2. CASE ~exempt
        BY <2>1, <3>2, GotoStep DEF Gate, Enqueue, Locations, Running
      <3> QED BY <3>1, <3>2
    <2>2. CASE Authenticate(r)
      BY <2>2, AuthenticateStep
    <2>3. CASE Handle(r)
      <3>1. CASE call[r].route = "password"
        BY <2>3, <3>1, GotoStep DEF Handle, Enqueue, Locations, Running
      <3>2. CASE call[r].route = "status"
        BY <2>3, <3>2, GotoStep DEF Handle, Enqueue, Locations, Running
      <3>3. CASE call[r].route \notin {"password", "status"}
        BY <2>3, <3>3, LeaveStep DEF Handle
      <3> QED BY <3>1, <3>2, <3>3
    <2>4. CASE ReadAgain(r)
      BY <2>4, LeaveStep DEF ReadAgain
    <2>5. CASE LockToWrite(r)
      BY <2>5, LockToWriteStep
    <2>6. CASE WriteFile(r) \/ Store(r)
      BY <2>6, SetPasswordStep
    <2> QED BY <1>1, <2>1, <2>2, <2>3, <2>4, <2>5, <2>6 DEF Step
  <1>2. ASSUME NEW r \in Requests, Disconnect(r) PROVE AuthInv'
    BY <1>2, LeaveStep DEF Disconnect
  <1>3. CASE UNCHANGED vars
    BY <1>3 DEF vars, AuthInv, Typed, Locked, Secured, Durable
  <1> QED BY <1>1, <1>2, <1>3, StartStep, CrashStep, ArriveStep, SetPasswordStep DEF Next

(* The invariant holds in every reachable state (api.rs:125, auth.rs:22).  *)
THEOREM AuthCorrect == Spec => []AuthInv
  <1>1. Init => AuthInv
    BY DEF Init, AuthInv, Typed, Locked, Secured, Durable, Hashes, Running, Locations
  <1> QED BY <1>1, AuthStep, PTL DEF Spec, PatientSpec

(* Once a password was set, the loopback exemption never returns           *)
(* (auth.rs:22-24, api.rs:146).                                            *)
THEOREM StaysSecuredHolds == Spec => []StaysSecured
  <1>1. AuthInv => StaysSecured
    BY DEF AuthInv, Secured, StaysSecured
  <1> QED BY <1>1, AuthCorrect, PTL

(* The acknowledged password is in memory and in the file (auth.rs:73-75). *)
THEOREM DurableHolds == Spec => []Durable
  <1>1. AuthInv => Durable
    BY DEF AuthInv
  <1> QED BY <1>1, AuthCorrect, PTL

(* A handler's credential stays one while it runs (api.rs:129-135).        *)
THEOREM VerdictStillTrueHolds == Spec => []VerdictStillTrue
  <1>1. AuthInv => VerdictStillTrue
    BY DEF AuthInv, Typed, Locked, Running, Locations, VerdictStillTrue
  <1> QED BY <1>1, AuthCorrect, PTL

NeverSet ==
    ~exempt => \A r \in Requests : pc[r] \notin {"write", "store"}

(* Under authentication no password is ever set: the request that asks for *)
(* it waits for its own middleware's guard (api.rs:129, 179), so that only *)
(* its client's giving up ends it.                                         *)
THEOREM NeverSetHolds == Spec => []NeverSet
  <1>1. AuthInv => NeverSet
    BY WriterIsExempt DEF AuthInv, NeverSet
  <1> QED BY <1>1, AuthCorrect, PTL

------------------------------------------------------------------------------
(* The lock's queue.                                                       *)

(* A request waits in the queue once, while it asks for the lock.          *)
Queued ==
    /\ waiting \in Seq(Requests) /\ IsInjective(waiting)
    /\ \A r \in Requests : r \in Range(waiting) <=> pc[r] \in Asking

(* What a step does to the queue and to where its request is.              *)
Leaves(r) == waiting' = RemoveFirst(waiting, r) /\ pc' = [pc EXCEPT ![r] = "idle"]

Enters(r) ==
    /\ pc[r] \in {"gate", "handler"} /\ waiting' = Append(waiting, r)
    /\ \E location \in Asking : pc' = [pc EXCEPT ![r] = location]

Advances(r) ==
    /\ First(r) /\ waiting' = Tail(waiting)
    /\ \E location \in Locations \ Asking : pc' = [pc EXCEPT ![r] = location]

Passes(r) ==
    /\ pc[r] \in Locations \ Asking /\ UNCHANGED waiting
    /\ \E location \in Locations \ Asking : pc' = [pc EXCEPT ![r] = location]

(* Every step is one of these.                                             *)
LEMMA QueueSteps ==
    ASSUME [Next]_vars
    PROVE  \/ UNCHANGED <<waiting, pc>>
           \/ waiting' = <<>> /\ pc' = [r \in Requests |-> "idle"]
           \/ \E r \in Requests : Leaves(r) \/ Enters(r) \/ Advances(r) \/ Passes(r)
  <1> USE DEF Leaves, Enters, Advances, Passes, Goto, lock
  <1>1. CASE UNCHANGED vars
    BY <1>1 DEF vars
  <1>2. CASE (\E open \in BOOLEAN : Start(open)) \/ (\E p \in Passwords : StartWith(p))
    BY <1>2 DEF Start, StartWith
  <1>3. CASE Crash
    BY <1>3 DEF Crash
  <1>4. ASSUME NEW r \in Requests, NEW c \in Calls, Arrive(r, c)
        PROVE  Passes(r)
    BY <1>4 DEF Arrive, Locations, Asking
  <1>5. ASSUME NEW r \in Requests, Gate(r)
        PROVE  Enters(r) \/ Passes(r)
    BY <1>5 DEF Gate, Enqueue, Locations, Asking
  <1>6. ASSUME NEW r \in Requests, Authenticate(r)
        PROVE  Leaves(r) \/ Advances(r)
    BY <1>6 DEF Authenticate, MayRead, Leave, Locations, Asking
  <1>7. ASSUME NEW r \in Requests, Handle(r)
        PROVE  Leaves(r) \/ Enters(r)
    <2>1. CASE call[r].route = "password"
      BY <1>7, <2>1 DEF Handle, Enqueue, Asking
    <2>2. CASE call[r].route = "status"
      BY <1>7, <2>2 DEF Handle, Enqueue, Asking
    <2>3. CASE call[r].route \notin {"password", "status"}
      BY <1>7, <2>3 DEF Handle, Leave
    <2> QED BY <2>1, <2>2, <2>3
  <1>8. ASSUME NEW r \in Requests, ReadAgain(r) \/ WriteFails(r) \/ Store(r) \/ Disconnect(r)
        PROVE  Leaves(r)
    BY <1>8 DEF ReadAgain, WriteFails, Store, Disconnect, Leave
  <1>9. ASSUME NEW r \in Requests, LockToWrite(r)
        PROVE  Advances(r)
    BY <1>9 DEF LockToWrite, MayWrite, Locations, Asking
  <1>10. ASSUME NEW r \in Requests, WriteFile(r)
         PROVE  Passes(r)
    BY <1>10 DEF WriteFile, Locations, Asking
  <1> QED BY <1>1, <1>2, <1>3, <1>4, <1>5, <1>6, <1>7, <1>8, <1>9, <1>10 DEF Next, Step

(* Who asks is queued, who is served or dropped leaves the queue.          *)
LEMMA QueuedStep ==
    ASSUME AuthInv, Queued, [Next]_vars
    PROVE  Queued'
  <1>0. pc \in [Requests -> Locations] /\ "idle" \notin Asking
    BY DEF AuthInv, Typed, Asking
  <1>1. CASE UNCHANGED <<waiting, pc>>
    BY <1>1 DEF Queued
  <1>2. CASE waiting' = <<>> /\ pc' = [r \in Requests |-> "idle"]
    <2>1. <<>> \in Seq(Requests) /\ IsInjective(<<>>) /\ Range(<<>>) = {}
      BY DEF IsInjective, Range
    <2> QED BY <1>0, <1>2, <2>1 DEF Queued
  <1>3. ASSUME NEW r \in Requests, NEW location, NEW queue,
               pc' = [pc EXCEPT ![r] = location], waiting' = queue,
               queue \in Seq(Requests), IsInjective(queue),
               location \in Asking => Range(queue) = Range(waiting) \cup {r},
               location \notin Asking => Range(queue) = Range(waiting) \ {r}
        PROVE  Queued'
    <2>1. pc'[r] = location /\ \A q \in Requests : q # r => pc'[q] = pc[q]
      BY <1>0, <1>3
    <2>2. \A q \in Requests : q \in Range(queue) <=> pc'[q] \in Asking
      BY <1>3, <2>1 DEF Queued
    <2> QED BY <1>3, <2>2 DEF Queued
  <1>4. ASSUME NEW r \in Requests, Leaves(r) PROVE Queued'
    BY <1>0, <1>3, <1>4, RemoveFirstRange DEF Leaves, Queued
  <1>5. ASSUME NEW r \in Requests, Enters(r) PROVE Queued'
    <2>1. r \notin Range(waiting)
      BY <1>5 DEF Enters, Queued, Asking
    <2> QED BY <1>3, <1>5, <2>1, AppendRange DEF Enters, Queued
  <1>6. ASSUME NEW r \in Requests, Advances(r) PROVE Queued'
    BY <1>3, <1>6, TailRange DEF Advances, First, Queued
  <1>7. ASSUME NEW r \in Requests, Passes(r) PROVE Queued'
    <2>1. r \notin Range(waiting)
      BY <1>7 DEF Passes, Queued
    <2>2. Range(waiting) = Range(waiting) \ {r}
      BY <2>1
    <2> QED BY <1>3, <1>7, <2>2 DEF Passes, Queued
  <1> QED BY <1>1, <1>2, <1>4, <1>5, <1>6, <1>7, QueueSteps

(* A guard is held by a request whose middleware has admitted it, and a    *)
(* request that runs is the call somebody sent.                            *)
Guarded ==
    \A r \in Requests :
        /\ pc[r] = "idle" <=> call[r] = NoCall
        /\ r \in readers => pc[r] \notin {"idle", "gate", "ask"}

(* A guard goes with the request that holds it.                            *)
LEMMA GuardedStep ==
    ASSUME AuthInv, Guarded, [Next]_vars
    PROVE  Guarded'
  <1>0. /\ pc \in [Requests -> Locations] /\ call \in [Requests -> Calls \cup {NoCall}]
        /\ NoCall \notin Calls /\ readers \subseteq Requests
    BY CallsAssumption DEF AuthInv, Typed
  <1>1. CASE UNCHANGED <<pc, call, readers>>
    BY <1>1 DEF Guarded
  <1>2. CASE Crash
    BY <1>2 DEF Crash, Guarded
  <1>3. ASSUME NEW r \in Requests, Leave(r) PROVE Guarded'
    BY <1>0, <1>3 DEF Leave, Guarded
  <1>4. ASSUME NEW r \in Requests, NEW c \in Calls, Arrive(r, c) PROVE Guarded'
    BY <1>0, <1>4 DEF Arrive, lock, Guarded
  <1>5. ASSUME NEW r \in Requests, NEW location \in Locations, Goto(r, location),
               location \notin {"idle", "gate"}, pc[r] # "idle",
               readers' \in {readers, readers \cup {r}},
               location = "ask" => r \notin readers /\ UNCHANGED readers
        PROVE  Guarded'
    BY <1>0, <1>5 DEF Goto, Guarded
  <1>6. ASSUME NEW r \in Requests, Step(r) PROVE Guarded'
    <2>1. CASE Gate(r)
      <3>1. r \notin readers
        BY <2>1 DEF Gate, Guarded
      <3>2. "handler" \in Locations /\ "ask" \in Locations
        BY DEF Locations
      <3> QED BY <1>5, <2>1, <3>1, <3>2 DEF Gate, Enqueue, lock
    <2>2. CASE Authenticate(r)
      BY <1>3, <1>5, <2>2 DEF Authenticate, Locations
    <2>3. CASE Handle(r)
      <3>1. CASE call[r].route = "password"
        BY <1>5, <2>3, <3>1 DEF Handle, Enqueue, Locations
      <3>2. CASE call[r].route = "status"
        BY <1>5, <2>3, <3>2 DEF Handle, Enqueue, Locations
      <3>3. CASE call[r].route \notin {"password", "status"}
        BY <1>3, <2>3, <3>3 DEF Handle
      <3> QED BY <3>1, <3>2, <3>3
    <2>4. CASE ReadAgain(r) \/ Store(r)
      BY <1>3, <2>4 DEF ReadAgain, Store
    <2>5. CASE LockToWrite(r) \/ WriteFile(r)
      BY <1>5, <2>5 DEF LockToWrite, WriteFile, lock, Locations
    <2> QED BY <1>6, <2>1, <2>2, <2>3, <2>4, <2>5 DEF Step
  <1>7. ASSUME NEW r \in Requests, WriteFails(r) \/ Disconnect(r) PROVE Guarded'
    BY <1>3, <1>7 DEF WriteFails, Disconnect
  <1>8. CASE (\E open \in BOOLEAN : Start(open)) \/ (\E p \in Passwords : StartWith(p))
    BY <1>1, <1>8 DEF Start, StartWith, lock
  <1> QED BY <1>1, <1>2, <1>4, <1>6, <1>7, <1>8 DEF Next, vars

(* The flags, the faults and what was acknowledged.                        *)
Marked ==
    /\ up \in BOOLEAN /\ exempt \in BOOLEAN /\ disturbed \in BOOLEAN
    /\ faults \in 0 .. MaxFaults /\ acked \in Passwords \cup {NoHash}

(* Every step counts its fault and acknowledges a password that was sent.  *)
LEMMA MarkedStep ==
    ASSUME AuthInv, Marked, [Next]_vars
    PROVE  Marked'
  <1> USE DEF Marked
  <1>1. CASE UNCHANGED <<up, exempt, disturbed, faults, acked>>
    BY <1>1
  <1>2. ASSUME Fault PROVE faults' \in 0 .. MaxFaults
    BY <1>2, BoundAssumption DEF Fault
  <1>3. ASSUME NEW open \in BOOLEAN, Start(open) PROVE Marked'
    BY <1>3 DEF Start
  <1>4. ASSUME NEW password \in Passwords, StartWith(password) PROVE Marked'
    BY <1>2, <1>4 DEF StartWith
  <1>5. CASE Crash
    BY <1>2, <1>5 DEF Crash
  <1>6. ASSUME NEW r \in Requests, WriteFails(r) PROVE Marked'
    BY <1>2, <1>6 DEF WriteFails
  <1>7. ASSUME NEW r \in Requests, Store(r) PROVE Marked'
    <2>1. call[r].password \in Passwords
      BY <1>7, PasswordSent DEF AuthInv, Store
    <2> QED BY <1>7, <2>1 DEF Store
  <1>8. ASSUME NEW r \in Requests,
               \/ \E c \in Calls : Arrive(r, c)
               \/ Gate(r) \/ Authenticate(r) \/ Handle(r) \/ ReadAgain(r)
               \/ LockToWrite(r) \/ WriteFile(r) \/ Disconnect(r)
        PROVE  Marked'
    BY <1>1, <1>8 DEF Arrive, Gate, Authenticate, Handle, ReadAgain, LockToWrite, WriteFile,
                      Disconnect, stored
  <1> QED BY <1>1, <1>3, <1>4, <1>5, <1>6, <1>7, <1>8 DEF Next, Step, vars

(* Every reachable state is well-typed, and the lock is no one's who does  *)
(* not run: a request is in its queue while it asks, and only then, and    *)
(* who was dropped holds no guard (api.rs:129, 167, 179, 245).             *)
THEOREM TypeCorrect == Spec => []TypeOK
  <1>1. Init => Queued /\ Guarded /\ Marked
    <2>1. <<>> \in Seq(Requests) /\ IsInjective(<<>>) /\ Range(<<>>) = {}
      BY DEF IsInjective, Range
    <2>2. Init => Queued
      BY <2>1 DEF Init, Queued, Asking
    <2>3. Init => Guarded
      BY DEF Init, Guarded
    <2>4. Init => Marked
      <3>1. 0 \in 0 .. MaxFaults
        BY BoundAssumption
      <3> QED BY <3>1 DEF Init, Marked
    <2> QED BY <2>2, <2>3, <2>4
  <1>2. AuthInv /\ Queued /\ Guarded /\ Marked /\ [Next]_vars => (Queued /\ Guarded /\ Marked)'
    BY QueuedStep, GuardedStep, MarkedStep
  <1>3. AuthInv /\ Queued /\ Guarded /\ Marked => TypeOK
    BY DEF AuthInv, Typed, Hashes, Queued, Guarded, Marked, TypeOK, Range
  <1> QED BY <1>1, <1>2, <1>3, AuthCorrect, PTL DEF Spec, PatientSpec
===============================================================================
