------------------------------ MODULE CommandLog ------------------------------
(***************************************************************************)
(* What the remote store promises its clients: the commands of all clients *)
(* take effect one at a time, those of a client in the order it sent them, *)
(* and an answer says what follows from the commands before it.  There is  *)
(* no store here: what a source holds is read off the log of commands.  A  *)
(* client that loses its connection loses the requests it sent last, and   *)
(* answers; nobody else loses anything.                                    *)
(***************************************************************************)
EXTENDS Integers, Sequences

CONSTANT Clients

VARIABLES
  log,       (* the commands executed, in order                         *)
  requests,  (* of each client: its commands that were not executed yet *)
  answers,   (* of each client: the answers given                       *)
  lost       (* the clients that have lost their connection             *)

vars == <<log, requests, answers, lost>>

(* A client numbers its commands: the n-th of c has the RefID <<c, n>>. *)
Number(k) == k.refid[2]

Changes(k, source, cmdid) == k.source = source /\ k.cmdid = cmdid

(* A source is there if it was written since it was last deleted ... *)
Exists(source) ==
  \E i \in DOMAIN log :
    /\ Changes(log[i], source, "WRITE")
    /\ \A j \in i + 1 .. Len(log) : ~Changes(log[j], source, "DELETE")

(* ... and holds what was written since then. *)
Content(source) ==
  LET held[n \in 0 .. Len(log)] ==
        IF n = 0 \/ Changes(log[n], source, "DELETE") THEN <<>>
        ELSE IF Changes(log[n], source, "WRITE")
             THEN held[n - 1] \o log[n].data
             ELSE held[n - 1]
  IN  held[Len(log)]

(* The bytes a READ asks for, as far as the source goes. *)
Asked(k) ==
  {i \in 1 .. k.length : k.offset + i <= Len(Content(k.source))}

Answer(k) ==
  LET found == Exists(k.source)
  IN  [refid  |-> k.refid,
       result |-> IF k.cmdid = "WRITE" \/ found THEN "SUCCESS" ELSE "ERROR",
       data   |-> IF k.cmdid = "READ" /\ found
                  THEN [i \in Asked(k) |-> Content(k.source)[k.offset + i]]
                  ELSE <<>>,
       length |-> IF k.cmdid = "LENGTH" /\ found
                  THEN Len(Content(k.source)) ELSE 0]

Init ==
  /\ log = <<>>
  /\ requests = [c \in Clients |-> {}]
  /\ answers = [c \in Clients |-> <<>>]
  /\ lost = {}

(* What was sent first of some commands. *)
Beginning(some, all) ==
  /\ some \subseteq all
  /\ \A k \in all, l \in some : Number(k) <= Number(l) => k \in some

(* k is what c sent first of what was not executed yet. *)
IsFirst(c, k) ==
  /\ k \in requests[c]
  /\ \A l \in requests[c] \ {k} : Number(k) < Number(l)

Others(c) == \A d \in Clients \ {c} : requests'[d] = requests[d]

(* A client that has its connection sends: new commands, that come after all
   it has sent before. *)
Request(c) ==
  /\ c \notin lost
  /\ requests[c] \subseteq requests'[c]
  /\ \A k \in requests'[c] \ requests[c] :
       /\ k.refid[1] = c
       /\ \A l \in requests[c] : Number(l) < Number(k)
       /\ \A j \in DOMAIN log : log[j].refid[1] = c => Number(log[j]) < Number(k)
  /\ Others(c)
  /\ UNCHANGED <<log, answers, lost>>

(* The first request of c is executed and answered. *)
Execute(c) ==
  /\ \E k \in requests[c] :
       /\ IsFirst(c, k)
       /\ log' = Append(log, k)
       /\ answers' = [answers EXCEPT ![c] = Append(@, Answer(k))]
       /\ requests'[c] = requests[c] \ {k}
  /\ Others(c)
  /\ UNCHANGED lost

(* It is executed, and the connection lost before the answer; so may be what
   c has sent after it. *)
ExecuteUnanswered(c) ==
  /\ \E k \in requests[c] :
       /\ IsFirst(c, k)
       /\ log' = Append(log, k)
       /\ Beginning(requests'[c], requests[c] \ {k})
  /\ Others(c)
  /\ lost' = lost \cup {c}
  /\ UNCHANGED answers

(* The connection is lost. *)
Lose(c) ==
  /\ lost' = lost \cup {c}
  /\ Beginning(requests'[c], requests[c])
  /\ Others(c)
  /\ UNCHANGED <<log, answers>>

Next ==
  \E c \in Clients :
    Request(c) \/ Execute(c) \/ ExecuteUnanswered(c) \/ Lose(c)

Spec == Init /\ [][Next]_vars
=============================================================================
