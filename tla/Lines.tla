-------------------------------- MODULE Lines --------------------------------
(***************************************************************************)
(* What ring queues promise, with no word about arrays: lines of elements  *)
(* served first come, first served, that can be copied and moved.          *)
(*                                                                         *)
(* The code keeps less than that.  A queue that was copied from another,   *)
(* or moved away from, is frail until it is cleared or reserved: to        *)
(* enqueue there may break the program.  So may copying an empty queue, or *)
(* a queue onto itself, and reserving less than the capacity.              *)
(***************************************************************************)
EXTENDS Integers, Sequences

CONSTANTS
  Name,     \* the queues
  Value,    \* the elements
  None

VARIABLES
  line,     \* the elements of each queue
  frail,    \* the queues of which less is promised
  broken,   \* memory has been overwritten
  ret       \* result of the last call

vars == <<line, frail, broken, ret>>

Init == /\ line = [n \in Name |-> << >>]
        /\ frail = {}
        /\ broken = FALSE
        /\ ret = None

Break == broken' = TRUE /\ UNCHANGED <<line, frail, ret>>

Becomes(n, elements) == line' = [line EXCEPT ![n] = elements]
Sound == ~broken /\ broken' = FALSE

Enqueue(n, v) == \/ /\ Sound
                    /\ Becomes(n, Append(line[n], v))
                    /\ frail' \in {frail, frail \ {n}}
                    /\ UNCHANGED ret
                 \/ n \in frail /\ Break

Dequeue(n) == /\ Sound
              /\ line[n] # << >>
              /\ ret' = Head(line[n])
              /\ Becomes(n, Tail(line[n]))
              /\ UNCHANGED frail

Look(n) == /\ Sound
           /\ ret' = IF line[n] = << >> THEN None ELSE Head(line[n])
           /\ UNCHANGED <<line, frail>>

\* Room is made, or there was enough.
Reserve(n) == \/ /\ Sound
                 /\ frail' \in {frail, frail \ {n}}
                 /\ UNCHANGED <<line, ret>>
              \/ line[n] = << >> /\ Break

Clear(n) == /\ Sound
            /\ Becomes(n, << >>)
            /\ frail' = frail \ {n}
            /\ UNCHANGED ret

Copy(from, to) == \/ /\ Sound
                     /\ from # to
                     /\ Becomes(to, line[from])
                     /\ frail' = frail \cup {to}
                     /\ UNCHANGED ret
                  \/ (line[from] = << >> \/ from = to) /\ Break

Move(from, to) == /\ Sound
                  /\ line' = [n \in Name |-> IF n = from THEN << >>
                                             ELSE IF n = to THEN line[from] ELSE line[n]]
                  /\ frail' = (IF from \in frail THEN frail \cup {to} ELSE frail \ {to})
                                \cup {from}
                  /\ UNCHANGED ret

Next == \E n \in Name : \/ \E v \in Value : Enqueue(n, v)
                        \/ Dequeue(n) \/ Look(n) \/ Reserve(n) \/ Clear(n)
                        \/ \E m \in Name : Copy(n, m) \/ Move(n, m)

Spec == Init /\ [][Next]_vars
=============================================================================
