---------------------------- MODULE BackendService ----------------------------
(***************************************************************************)
(* What the control API promises the commands that call it: a backend is   *)
(* absent, serving or draining, and a call takes effect at one moment      *)
(* between the question and the answer, which tells what the effect was.   *)
(* Only DELETE is seen earlier: while it is pending, its backend may stop  *)
(* taking new connections before it is gone.                               *)
(***************************************************************************)
EXTENDS Integers

CONSTANTS Callers,  \* clients of the API, each with one call at a time
          Ids       \* backend ids

VARIABLES status,   \* what each backend is
          call      \* the call of each caller: operation, id and answer

vars == <<status, call>>

None == 0     \* not an id: none was given
Wait == 0     \* not an answer: there is none yet
Ops  == {"POST", "PUT", "DELETE", "LIST", "READY"}
Idle == [op |-> "none", id |-> None, ans |-> Wait]

Init ==
    /\ status = [i \in Ids |-> "absent"]
    /\ call = [c \in Callers |-> Idle]

Ask(c) ==
    /\ call[c] = Idle
    /\ \E op \in Ops, id \in Ids \cup {None} :
          call' = [call EXCEPT ![c] = [op |-> op, id |-> id, ans |-> Wait]]
    /\ UNCHANGED status

Pending(c, op) == call[c].op = op /\ call[c].ans = Wait
Answer(c, ans) == call' = [call EXCEPT ![c].ans = ans]
Become(i, s)   == status' = [status EXCEPT ![i] = s]
There(c)       == call[c].id \in Ids /\ status[call[c].id] # "absent"

Post(c) ==
    /\ Pending(c, "POST")
    /\ call[c].id \in Ids
    /\ \/ ~There(c) /\ Become(call[c].id, "serving") /\ Answer(c, 201)
       \/ There(c) /\ Answer(c, 409) /\ UNCHANGED status

Put(c) ==
    /\ Pending(c, "PUT")
    /\ \/ There(c) /\ Become(call[c].id, "draining") /\ Answer(c, 204)
       \/ ~There(c) /\ Answer(c, 404) /\ UNCHANGED status

PreDrain(c) ==
    /\ Pending(c, "DELETE")
    /\ There(c) /\ Become(call[c].id, "draining")
    /\ UNCHANGED call

Delete(c) ==
    /\ Pending(c, "DELETE")
    /\ \/ There(c) /\ Become(call[c].id, "absent") /\ Answer(c, 204)
       \/ ~There(c) /\ Answer(c, 404) /\ UNCHANGED status

\* Ready exactly if a backend is serving.
Ready(c) ==
    /\ Pending(c, "READY")
    /\ Answer(c, IF \E i \in Ids : status[i] = "serving" THEN 200 ELSE 503)
    /\ UNCHANGED status

List(c) ==
    /\ Pending(c, "LIST")
    /\ Answer(c, 200)
    /\ UNCHANGED status

\* A call that is not authorised or makes no sense has no effect.
Refuse(c) ==
    /\ call[c].op \in Ops /\ call[c].ans = Wait
    /\ \E ans \in {400, 401, 403} : Answer(c, ans)
    /\ UNCHANGED status

Return(c) ==
    /\ call[c].ans # Wait
    /\ call' = [call EXCEPT ![c] = Idle]
    /\ UNCHANGED status

Next ==
    \E c \in Callers :
        \/ Ask(c) \/ Post(c) \/ Put(c) \/ PreDrain(c) \/ Delete(c)
        \/ Ready(c) \/ List(c) \/ Refuse(c) \/ Return(c)

Spec == Init /\ [][Next]_vars
=============================================================================
