------------------------------ MODULE ReadLoop ------------------------------
(***************************************************************************)
(* The connection of a session, as the server uses it.  Messages are read  *)
(* in the order they came by one goroutine, which runs the handler of each *)
(* before it reads the next.  The reply to a request of the server is a    *)
(* message like the others, so a handler that waits for one must first     *)
(* hand the reading over (Server.call).                                    *)
(***************************************************************************)
EXTENDS Naturals, Sequences

CONSTANT Calls     \* what the server asks of the client

VARIABLES
  inbox,      \* messages of the client that were not read
  serving,    \* the message whose handler runs on the reading goroutine
  apart,      \* messages whose handlers run beside it
  call        \* [Calls -> "none", "asked" or "answered"]: answered and not read

readLoop == <<inbox, serving, apart, call>>

Nobody == [kind |-> "nobody"]
Reply(c) == [kind |-> "reply", of |-> c]

ReadLoopInit ==
  /\ serving = Nobody /\ apart = {}
  /\ call = [c \in Calls |-> "none"]

-----------------------------------------------------------------------------
\* The client sends a message.
Arrives(m) == inbox' = Append(inbox, m) /\ UNCHANGED <<serving, apart, call>>

\* The client answers a request of the server.
Answer(c) ==
  /\ call[c] = "asked" /\ call' = [call EXCEPT ![c] = "answered"]
  /\ inbox' = Append(inbox, Reply(c))
  /\ UNCHANGED <<serving, apart>>

\* The next message is read: its handler starts,
Read ==
  /\ serving = Nobody /\ inbox # <<>> /\ Head(inbox).kind # "reply"
  /\ serving' = Head(inbox) /\ inbox' = Tail(inbox)
  /\ UNCHANGED <<apart, call>>

\* or the reply is given to whoever waits for it.
ReadReply ==
  /\ serving = Nobody /\ inbox # <<>> /\ Head(inbox).kind = "reply"
  /\ call' = [call EXCEPT ![Head(inbox).of] = "none"] /\ inbox' = Tail(inbox)
  /\ UNCHANGED <<serving, apart>>

\* The handler that runs on the reading goroutine returns.
Return == serving' = Nobody /\ UNCHANGED <<inbox, apart, call>>

\* Mutant of Handover: the handler keeps the reading goroutine.
HandoverNothing(m) == UNCHANGED serving /\ apart' = apart \cup {m}

\* jsonrpc2.Async, in the handler of m.
Handover(m) == serving' = Nobody /\ apart' = apart \cup {m}

\* Server.call in the handler of m: the reading is handed over, then the client
\* is asked.
CallFrom(m, c) ==
  /\ serving = m /\ call[c] = "none" /\ call' = [call EXCEPT ![c] = "asked"]
  /\ Handover(m)
  /\ UNCHANGED inbox

\* The same in a goroutine of its own, which has nothing to hand over.
CallAlone(c) ==
  /\ call[c] = "none" /\ call' = [call EXCEPT ![c] = "asked"]
  /\ UNCHANGED <<inbox, serving, apart>>

\* A handler that runs beside the reader returns.
ReturnApart(m) ==
  /\ m \in apart /\ apart' = apart \ {m}
  /\ UNCHANGED <<inbox, serving, call>>
=============================================================================
