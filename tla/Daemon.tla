------------------------------- MODULE Daemon -------------------------------
(***************************************************************************)
(* clif processes sharing one project's socket: runServer (cmd/clif), and  *)
(* Serve and Proxy (internal/daemon).  Every editor window starts one      *)
(* process.  A process whose dial is answered is a proxy for its life; one *)
(* whose dial fails becomes a daemon: it counts its own session, replaces  *)
(* the socket file, serves whoever connects, and exits when its drain      *)
(* finds no session.                                                       *)
(*                                                                         *)
(* The tracker is the interface ConnTracker implements: a count, and a     *)
(* wait that can wake once the count has been zero since the wait began.   *)
(* A socket is named by the process that bound it, so `path' is the inode  *)
(* behind the socket's file name.  The kernel's part (dial, backlog,       *)
(* unlink by name in UnixListener.Close) is modelled as Serve uses it; a   *)
(* full backlog, which also fails a dial, is not.                          *)
(***************************************************************************)
EXTENDS Naturals, FiniteSets

CONSTANTS
    Procs,                \* the processes editors start, each of them once
    None,                 \* no process
    SerialStarts,         \* editors start one at a time (see Launch)
    MaxCrashes,           \* bound on daemons killed without a shutdown
    MaxFaults             \* bound on failures of Serve's system calls

ASSUME ProcsAssumption == IsFiniteSet(Procs) /\ None \notin Procs
ASSUME BoundsAssumption ==
    SerialStarts \in BOOLEAN /\ MaxCrashes \in Nat /\ MaxFaults \in Nat

VARIABLES
    role,                 \* process -> "off", "dialing", "daemon", "proxy", "gone"
    srv,                  \* its Serve goroutine
    path,                 \* whose socket the file name leads to
    editor,               \* process -> its editor still holds its end open
    at,                   \* session -> the daemon it is a session of
    sess,                 \* session -> how far it has come
    count,                \* daemon -> ct.count
    drain,                \* daemon -> where WaitForLastClient is
    cancelled,            \* daemon -> its context was cancelled
    crashes,              \* how many daemons were killed
    faults                \* how many of Serve's system calls failed

failures == <<crashes, faults>>
vars == <<role, srv, path, editor, at, sess, count, drain, cancelled, crashes, faults>>

\* "deaf": Serve returned an error, which runServer discards.  "unlinked": the
\* listener's Close has removed the file name and not yet closed the socket.
ServeAt == {"none", "remove", "listen", "accept", "unlinked", "closed", "deaf"}

\* "backlog": dialled, not accepted.  "accepted": its goroutine has not run
\* ct.Add yet.  "cut": the daemon went away under it.
SessionAt == {"none", "backlog", "accepted", "counted", "removed", "cut"}

\* "wait": blocked on an open Done().  "fired": that channel is closed.
\* "final": Count() returned 0, cancel() is next.
DrainAt == {"off", "wait", "fired", "grace", "final"}

TypeOK ==
    /\ role \in [Procs -> {"off", "dialing", "daemon", "proxy", "gone"}]
    /\ srv \in [Procs -> ServeAt]
    /\ path \in Procs \cup {None}
    /\ editor \in [Procs -> BOOLEAN]
    /\ at \in [Procs -> Procs \cup {None}]
    /\ sess \in [Procs -> SessionAt]
    /\ count \in [Procs -> Nat]
    /\ drain \in [Procs -> DrainAt]
    /\ cancelled \in [Procs -> BOOLEAN]
    /\ crashes \in 0..MaxCrashes
    /\ faults \in 0..MaxFaults

Counted(d) == {c \in Procs : at[c] = d /\ sess[c] = "counted"}

\* Mutant: a cancelled daemon stops answering before it removes the name.
ListeningUntilCancelled(d) == srv[d] = "accept" /\ ~cancelled[d]

\* The socket of d still takes connections.
Listening(d) == srv[d] \in {"accept", "unlinked"}

\* The file name leads to a socket somebody listens on.
Answered == \E d \in Procs : path = d /\ Listening(d)

Init ==
    /\ role = [p \in Procs |-> "off"]
    /\ srv = [p \in Procs |-> "none"]
    /\ path = None
    /\ editor = [p \in Procs |-> FALSE]
    /\ at = [p \in Procs |-> None]
    /\ sess = [p \in Procs |-> "none"]
    /\ count = [p \in Procs |-> 0]
    /\ drain = [p \in Procs |-> "off"]
    /\ cancelled = [p \in Procs |-> FALSE]
    /\ crashes = 0
    /\ faults = 0

-----------------------------------------------------------------------------
(* A process starts *)

\* Between its launch and its socket answering, a process is starting.
Starting(p) ==
    \/ role[p] = "dialing"
    \/ role[p] = "daemon" /\ srv[p] \in {"remove", "listen"}

\* An editor window opens.  Under SerialStarts no two processes are starting
\* at once: a user opening windows by hand, not an editor restoring several.
Launch(p) ==
    /\ role[p] = "off"
    /\ SerialStarts => \A q \in Procs : ~Starting(q)
    /\ role' = [role EXCEPT ![p] = "dialing"]
    /\ editor' = [editor EXCEPT ![p] = TRUE]
    /\ UNCHANGED <<srv, path, at, sess, count, drain, cancelled, failures>>

DialAnswered(p) ==
    /\ role[p] = "dialing"
    /\ Answered
    /\ role' = [role EXCEPT ![p] = "proxy"]
    /\ at' = [at EXCEPT ![p] = path]
    /\ sess' = [sess EXCEPT ![p] = "backlog"]
    /\ UNCHANGED <<srv, path, editor, count, drain, cancelled, failures>>

BecomeDaemon(p) ==
    /\ role' = [role EXCEPT ![p] = "daemon"]
    /\ srv' = [srv EXCEPT ![p] = "remove"]
    /\ at' = [at EXCEPT ![p] = p]
    /\ UNCHANGED <<path, editor, sess, count, drain, cancelled, failures>>

\* Mutant: a dial may fail though a daemon is there.
DialGivesUp(p) == role[p] = "dialing" /\ BecomeDaemon(p)

\* runServer: Proxy returned an error, so this process is the daemon now.
DialFails(p) ==
    /\ role[p] = "dialing"
    /\ ~Answered
    /\ BecomeDaemon(p)

\* Mutant: runServer does not count its own session.
CountOwnForgotten(p) ==
    /\ role[p] = "daemon"
    /\ sess[p] = "none"
    /\ sess' = [sess EXCEPT ![p] = "counted"]
    /\ drain' = [drain EXCEPT ![p] = "wait"]
    /\ UNCHANGED <<role, srv, path, editor, at, count, cancelled, failures>>

\* ct.Add() for the session on stdin, concurrently with Serve; the wait for
\* the last client follows it.
CountOwn(p) ==
    /\ role[p] = "daemon"
    /\ sess[p] = "none"
    /\ sess' = [sess EXCEPT ![p] = "counted"]
    /\ count' = [count EXCEPT ![p] = @ + 1]
    /\ drain' = [drain EXCEPT ![p] = "wait"]
    /\ UNCHANGED <<role, srv, path, editor, at, cancelled, failures>>

\* Mutant: Serve binds without clearing what a killed daemon left behind.
RemoveNothing(p) ==
    /\ role[p] = "daemon"
    /\ srv[p] = "remove"
    /\ srv' = [srv EXCEPT ![p] = "listen"]
    /\ UNCHANGED <<role, path, editor, at, sess, count, drain, cancelled, failures>>

\* os.Remove(sockPath), whoever the file name leads to.
RemovePath(p) ==
    /\ role[p] = "daemon"
    /\ srv[p] = "remove"
    /\ path' = None
    /\ srv' = [srv EXCEPT ![p] = "listen"]
    /\ UNCHANGED <<role, editor, at, sess, count, drain, cancelled, failures>>

\* Binding fails when the name is taken again; runServer ignores the error.
Listen(p) ==
    /\ role[p] = "daemon"
    /\ srv[p] = "listen"
    /\ \/ /\ path = None
          /\ path' = p
          /\ srv' = [srv EXCEPT ![p] = "accept"]
       \/ /\ path # None
          /\ srv' = [srv EXCEPT ![p] = "deaf"]
          /\ UNCHANGED path
    /\ UNCHANGED <<role, editor, at, sess, count, drain, cancelled, failures>>

\* MkdirAll, Listen or Accept fails for a reason of its own (no descriptors,
\* no permission).  Serve returns, and its deferred Close takes the file name
\* and the unaccepted connections with it; the sessions it has live on.
ServeFails(d) ==
    /\ role[d] = "daemon" /\ ~cancelled[d]
    /\ srv[d] \in {"remove", "listen", "accept"}
    /\ faults < MaxFaults
    /\ faults' = faults + 1
    /\ srv' = [srv EXCEPT ![d] = "deaf"]
    /\ path' = IF srv[d] = "accept" THEN None ELSE path
    /\ sess' = [c \in Procs |->
                  IF at[c] = d /\ sess[c] = "backlog" THEN "cut" ELSE sess[c]]
    /\ UNCHANGED <<role, editor, at, count, drain, cancelled, crashes>>

-----------------------------------------------------------------------------
(* A daemon and its sessions *)

\* Mutant: a connection is served on the accept loop instead of a goroutine.
ToAcceptInline(d, c) ==
    /\ Listening(d) /\ at[c] = d /\ sess[c] = "backlog"
    /\ \A o \in Procs \ {d} : at[o] = d => sess[o] \notin {"accepted", "counted"}

ToAccept(d, c) == Listening(d) /\ at[c] = d /\ sess[c] = "backlog"

Accept(d, c) ==
    /\ role[d] = "daemon"
    /\ ToAccept(d, c)
    /\ sess' = [sess EXCEPT ![c] = "accepted"]
    /\ UNCHANGED <<role, srv, path, editor, at, count, drain, cancelled, failures>>

\* The connection's goroutine runs ct.Add.
Count(d, c) ==
    /\ role[d] = "daemon"
    /\ at[c] = d /\ sess[c] = "accepted"
    /\ sess' = [sess EXCEPT ![c] = "counted"]
    /\ count' = [count EXCEPT ![d] = @ + 1]
    /\ UNCHANGED <<role, srv, path, editor, at, drain, cancelled, failures>>

\* The window closes.  A proxy's process ends with it; a daemon's does not.
CloseEditor(c) ==
    /\ editor[c]
    /\ role[c] \in {"daemon", "proxy"}
    /\ editor' = [editor EXCEPT ![c] = FALSE]
    /\ role' = IF role[c] = "proxy" THEN [role EXCEPT ![c] = "gone"] ELSE role
    /\ UNCHANGED <<srv, path, at, sess, count, drain, cancelled, failures>>

\* Mutant: both ends of the select remove the session.
RemainingTwice(d) == count[d] - 2

\* What ct.Remove leaves in the counter.
Remaining(d) == count[d] - 1

\* conn.Done() or ctx.Done(), then the deferred ct.Remove.  Reaching zero
\* closes the channel a wait is blocked on.
Depart(d, c) ==
    /\ role[d] = "daemon"
    /\ at[c] = d /\ sess[c] = "counted"
    /\ ~editor[c] \/ cancelled[d]
    /\ sess' = [sess EXCEPT ![c] = "removed"]
    /\ count' = [count EXCEPT ![d] = Remaining(d)]
    /\ drain' = IF Remaining(d) = 0 /\ drain[d] = "wait"
                THEN [drain EXCEPT ![d] = "fired"] ELSE drain
    /\ UNCHANGED <<role, srv, path, editor, at, cancelled, failures>>

-----------------------------------------------------------------------------
(* The drain *)

StartGrace(d) ==
    /\ role[d] = "daemon"
    /\ drain[d] = "fired"
    /\ drain' = [drain EXCEPT ![d] = "grace"]
    /\ UNCHANGED <<role, srv, path, editor, at, sess, count, cancelled, failures>>

\* Mutant: the wait is an if, not a loop.
RecheckedOnce(d) == IF count[d] = 0 THEN "final" ELSE "off"

\* Count() after the timer: zero ends the loop, anything else goes round it.
Rechecked(d) == IF count[d] = 0 THEN "final" ELSE "wait"

Recheck(d) ==
    /\ role[d] = "daemon"
    /\ drain[d] = "grace"
    /\ drain' = [drain EXCEPT ![d] = Rechecked(d)]
    /\ UNCHANGED <<role, srv, path, editor, at, sess, count, cancelled, failures>>

\* runServer calls cancel(); from here its process may end at any moment.
Cancel(d) ==
    /\ role[d] = "daemon"
    /\ drain[d] = "final"
    /\ ~cancelled[d]
    /\ cancelled' = [cancelled EXCEPT ![d] = TRUE]
    /\ UNCHANGED <<role, srv, path, editor, at, sess, count, drain, failures>>

\* ln.Close unlinks the file name, whoever it leads to, then closes.
Unlink(d) ==
    /\ role[d] = "daemon"
    /\ cancelled[d]
    /\ srv[d] = "accept"
    /\ path' = None
    /\ srv' = [srv EXCEPT ![d] = "unlinked"]
    /\ UNCHANGED <<role, editor, at, sess, count, drain, cancelled, failures>>

\* Mutant: Serve removes the file name once more after closing, as it did.
CloseThenRemove(d) ==
    /\ role[d] = "daemon"
    /\ srv[d] = "unlinked"
    /\ srv' = [srv EXCEPT ![d] = "closed"]
    /\ path' = None
    /\ sess' = [c \in Procs |->
                  IF at[c] = d /\ sess[c] = "backlog" THEN "cut" ELSE sess[c]]
    /\ UNCHANGED <<role, editor, at, count, drain, cancelled, failures>>

\* Connections nobody accepted are reset.
CloseListener(d) ==
    /\ role[d] = "daemon"
    /\ srv[d] = "unlinked"
    /\ srv' = [srv EXCEPT ![d] = "closed"]
    /\ sess' = [c \in Procs |->
                  IF at[c] = d /\ sess[c] = "backlog" THEN "cut" ELSE sess[c]]
    /\ UNCHANGED <<role, path, editor, at, count, drain, cancelled, failures>>

\* A process that is gone takes its sockets with it; a proxy of it reads EOF
\* and ends too.  The file name stays.
Vanish(d) ==
    /\ role' = [p \in Procs |->
                  IF p = d \/ (role[p] = "proxy" /\ at[p] = d) THEN "gone" ELSE role[p]]
    /\ srv' = [srv EXCEPT ![d] = IF @ = "none" THEN "none" ELSE "closed"]
    /\ sess' = [c \in Procs |->
                  IF at[c] = d /\ sess[c] # "removed" THEN "cut" ELSE sess[c]]
    /\ UNCHANGED <<path, editor, at, count, drain, cancelled>>

\* runServer returned; what Serve had not finished is left undone.
Exit(d) ==
    /\ role[d] = "daemon"
    /\ cancelled[d]
    /\ Vanish(d)
    /\ UNCHANGED failures

Crash(d) ==
    /\ role[d] = "daemon"
    /\ crashes < MaxCrashes
    /\ crashes' = crashes + 1
    /\ UNCHANGED faults
    /\ Vanish(d)

-----------------------------------------------------------------------------
Startup(p) == DialAnswered(p) \/ DialFails(p) \/ CountOwn(p) \/ RemovePath(p) \/ Listen(p)

Serving(d) == \E c \in Procs : Accept(d, c) \/ Count(d, c) \/ Depart(d, c)

Draining(d) == StartGrace(d) \/ Recheck(d) \/ Cancel(d) \/ Exit(d)

Next ==
    \E p \in Procs :
        \/ Launch(p)
        \/ Startup(p)
        \/ ServeFails(p)
        \/ Serving(p)
        \/ CloseEditor(p)
        \/ Draining(p)
        \/ Unlink(p)
        \/ CloseListener(p)
        \/ Crash(p)

\* Goroutines are scheduled, timers fire and a returning main ends its
\* process.  Editors open and close windows as they like.
Fairness ==
    \A d \in Procs :
        /\ WF_vars(Startup(d))
        /\ WF_vars(Draining(d))
        /\ \A c \in Procs : WF_vars(Accept(d, c) \/ Count(d, c) \/ Depart(d, c))

Spec == Init /\ [][Next]_vars /\ Fairness

-----------------------------------------------------------------------------
(* Properties *)

\* A daemon's counter is the number of its counted sessions.
CountIsSessions ==
    \A d \in Procs : role[d] = "daemon" => count[d] = Cardinality(Counted(d))

\* A daemon that means to serve the project and has not begun to shut down.
Host(d) == role[d] = "daemon" /\ ~cancelled[d]

\* "The first editor session becomes the daemon, subsequent sessions connect
\* to the existing daemon": one process at a time hosts the project's index.
OneDaemon == \A d, e \in Procs : Host(d) /\ Host(e) => d = e

\* A daemon that accepts is the one the file name leads to: an editor started
\* now reaches it.  Serve's comment describes the failure, a daemon "over an
\* inode with no name" that every later editor misses.
NamedWhileServing == \A d \in Procs : Host(d) /\ srv[d] = "accept" => path = d

\* No daemon lives on without a socket because a bind failed.
NeverDeaf == \A d \in Procs : role[d] = "daemon" => srv[d] # "deaf"

\* "The name it removes is certainly its own": closing a listener never
\* unlinks the socket another daemon has bound meanwhile.
UnlinksOwn ==
    [][\A d \in Procs :
         srv[d] = "accept" /\ srv'[d] = "unlinked" => path \in {d, None}]_vars

\* "Subsequent sessions connect to the existing daemon": a process does not
\* become a daemon of its own while another one is accepting.
SubsequentSessionsConnect ==
    [][\A p, d \in Procs :
         role[p] = "dialing" /\ role'[p] = "daemon"
           => ~(Host(d) /\ srv[d] = "accept")]_vars

\* A dial that was answered is not left hanging: the session is counted, or
\* the daemon's end of the connection closes.
DialIsSettled ==
    \A c \in Procs :
        sess[c] = "backlog" ~> sess[c] \in {"counted", "removed", "cut"}

\* The guards of Accept, Count and Depart for a session, at the process it dialled.
ServedNext(c) ==
    /\ at[c] \in Procs /\ role[at[c]] = "daemon"
    /\ \/ ToAccept(at[c], c)
       \/ sess[c] = "accepted"
       \/ sess[c] = "counted" /\ (~editor[c] \/ cancelled[at[c]])

\* A daemon whose editors have all gone for good exits: no zero is missed and
\* nothing it waits for can fail to come.
Deserted(d) == \A c \in Procs : at[c] = d => ~editor[c]
DaemonExits ==
    \A d \in Procs : [](role[d] = "daemon" /\ []Deserted(d) => <>(role[d] = "gone"))
=============================================================================
