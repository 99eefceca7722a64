-------------------------------- MODULE Ipc --------------------------------
(***************************************************************************)
(* The kernel's message queues (kernel/ipc.c): one bounded queue per PID,  *)
(* non-blocking send, and receive with an optional sender and type filter. *)
(* Processes come and go as in Lifecycle; the end of a process includes    *)
(* the call of ipc_close_owner that process_kill and the exit of the last  *)
(* thread make.                                                            *)
(*                                                                         *)
(* A message carries, besides its header, the history the properties need: *)
(* its number among all messages sent, and which incarnation of sender and *)
(* receiver it belongs to.  Payload bytes are left out.                    *)
(***************************************************************************)
EXTENDS Lifecycle, Integers, SequencesExt

CONSTANTS Depth,      \* IPC_QUEUE_DEPTH
          MsgTypes,   \* the 16-bit message types in use
          MaxSends    \* bound on the number of messages sent

ASSUME IpcAssumption ==
    /\ Depth \in Nat \ {0}
    /\ MsgTypes \subseteq Nat
    /\ MaxSends \in Nat

VARIABLES queue,       \* g_queues
          lastSender,  \* g_last_sender
          sends,       \* history: messages sent so far
          delivered    \* history: last number delivered, per receiver, sender, type

ipcVars == <<queue, lastSender, sends, delivered>>
vars == <<live, incarnation, queue, lastSender, sends, delivered>>

Messages == [sender : Pids, type : MsgTypes, number : 1 .. MaxSends,
             from : 1 .. MaxSpawns, to : 1 .. MaxSpawns]

None == -1

TypeOK ==
    /\ LifecycleTypeOK
    /\ \A r \in Pids : /\ Len(queue[r]) <= Depth
                       /\ \A i \in 1 .. Len(queue[r]) : queue[r][i] \in Messages
    /\ lastSender \in [Pids -> Pids \union {None}]
    /\ sends \in 0 .. MaxSends
    /\ delivered \in [Pids \X Pids \X MsgTypes -> 0 .. MaxSends]

Init ==
    /\ LifecycleInit
    /\ queue = [r \in Pids |-> <<>>]
    /\ lastSender = [r \in Pids |-> None]
    /\ sends = 0
    /\ delivered = [k \in Pids \X Pids \X MsgTypes |-> 0]

(* ipc_send_typed: rejected unless both ends exist, and when the queue is full. *)
Send(s, r, ty) ==
    /\ {s, r} \subseteq live
    /\ Len(queue[r]) < Depth
    /\ sends < MaxSends
    /\ sends' = sends + 1
    /\ queue' = [queue EXCEPT ![r] = Append(@,
                   [sender |-> s, type |-> ty, number |-> sends + 1,
                    from |-> incarnation[s], to |-> incarnation[r]])]
    /\ UNCHANGED <<lastSender, delivered, live, incarnation>>

Matches(m, from, ty) ==
    /\ from = None \/ m.sender = from
    /\ ty = None \/ m.type = ty

(* Mutant of FirstMatch: the scan does not stop at the first match. *)
LastMatch(r, i, from, ty) ==
    /\ i \in 1 .. Len(queue[r])
    /\ Matches(queue[r][i], from, ty)
    /\ \A j \in i + 1 .. Len(queue[r]) : ~Matches(queue[r][j], from, ty)

(* The first message of r that passes the filters. *)
FirstMatch(r, i, from, ty) ==
    /\ i \in 1 .. Len(queue[r])
    /\ Matches(queue[r][i], from, ty)
    /\ \A j \in 1 .. i - 1 : ~Matches(queue[r][j], from, ty)

(* ipc_receive_typed by a running process: takes the message out of the     *)
(* middle and closes the gap.                                               *)
Receive(r, from, ty) ==
    /\ r \in live
    /\ \E i \in 1 .. Len(queue[r]) :
          LET m == queue[r][i]
          IN  /\ FirstMatch(r, i, from, ty)
              /\ queue' = [queue EXCEPT ![r] = RemoveAt(@, i)]
              /\ lastSender' = [lastSender EXCEPT ![r] = m.sender]
              /\ delivered' = [delivered EXCEPT ![<<r, m.sender, m.type>>] = m.number]
    /\ UNCHANGED <<sends, live, incarnation>>

(* What closing S sets back, whatever happens to the queues. *)
Forget(S) ==
    /\ lastSender' = [r \in Pids |-> IF r \in S THEN None ELSE lastSender[r]]
    /\ delivered' = [k \in Pids \X Pids \X MsgTypes |->
          IF k[1] \in S \/ k[2] \in S THEN 0 ELSE delivered[k]]
    /\ UNCHANGED sends

(* out of ipc_close_owner: where message i goes when those at K are kept. *)
Slot(K, i) == Cardinality({j \in K : j <= i})

(* The messages of q at K, moved to the front in order. *)
Compact(q, K) == [k \in 1 .. Cardinality(K) |-> q[CHOOSE i \in K : Slot(K, i) = k]]

(* Mutant of CloseOwner: what S sent stays in the other queues. *)
CloseOwnQueueOnly(S) ==
    /\ queue' = [r \in Pids |-> IF r \in S THEN <<>> ELSE queue[r]]
    /\ Forget(S)

(* Mutant of CloseOwner: the compaction stops at the first dropped message. *)
CloseOwnerTruncates(S) ==
    /\ queue' = [r \in Pids |->
          IF r \in S \/ \E i \in 1 .. Len(queue[r]) : queue[r][i].sender \in S
          THEN <<>> ELSE queue[r]]
    /\ Forget(S)

(* ipc_close_owner of every PID in S: the queues of S are emptied and what  *)
(* S sent is compacted away everywhere else.  The last-sender cells of the  *)
(* other receivers keep their value.                                        *)
CloseOwner(S) ==
    /\ queue' = [r \in Pids |->
          IF r \in S THEN <<>>
          ELSE Compact(queue[r], {i \in 1 .. Len(queue[r]) : queue[r][i].sender \notin S})]
    /\ Forget(S)

Exit(S) == End(S) /\ CloseOwner(S)

Spawn(p) == Begin(p) /\ UNCHANGED ipcVars

Next ==
    \/ \E s, r \in Pids, ty \in MsgTypes : Send(s, r, ty)
    \/ \E r \in Pids, from \in Pids \union {None}, ty \in MsgTypes \union {None} :
          Receive(r, from, ty)
    \/ \E S \in SUBSET Pids : Exit(S)
    \/ \E p \in Pids : Spawn(p)

Spec == Init /\ [][Next]_vars

-----------------------------------------------------------------------------
(* Properties *)

(* PIDs are reused, yet no message outlives either end: whatever waits in a *)
(* queue was sent by the program that now holds the sender's PID to the one *)
(* that now holds the receiver's (ipc_close_owner runs before the slot can  *)
(* be taken again).                                                         *)
NoDeadLetters ==
    \A r \in Pids : \A i \in 1 .. Len(queue[r]) :
        LET m == queue[r][i]
        IN  /\ {r, m.sender} \subseteq live
            /\ m.from = incarnation[m.sender]
            /\ m.to = incarnation[r]

(* Filtered receives and purges keep the order of arrival: a queue is in    *)
(* order of sending, and what a receiver still has from one sender and type *)
(* was sent after everything of that kind it already got.  No queue grows   *)
(* past its table.                                                          *)
InOrder ==
    /\ TypeOK
    /\ \A r \in Pids : \A i \in 1 .. Len(queue[r]) :
           LET m == queue[r][i]
           IN  /\ delivered[<<r, m.sender, m.type>>] < m.number
               /\ \A j \in 1 .. i - 1 : queue[r][j].number < m.number

(* Nothing is lost while both ends live: a message leaves a queue only by   *)
(* delivery to its receiver or with the end of one of its two processes.    *)
NoLoss ==
    [][\A r \in Pids : \A i \in 1 .. Len(queue[r]) :
          LET m == queue[r][i]
          IN  \/ \E j \in 1 .. Len(queue'[r]) : queue'[r][j] = m
              \/ delivered'[<<r, m.sender, m.type>>] = m.number /\ lastSender'[r] = m.sender
              \/ r \notin live' \/ m.sender \notin live']_vars
=============================================================================
