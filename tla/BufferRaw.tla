------------------------------ MODULE BufferRaw ------------------------------
(***************************************************************************)
(* BufferRaw, the buffer a poller reads into: its memory is reused while   *)
(* that is not too wasteful, and its size is set apart from its capacity.  *)
(* Lengths are in units of which two are the small size of setCapacity.    *)
(***************************************************************************)
EXTENDS Naturals

CONSTANTS MaxCapacity \* bound: the capacities asked for

VARIABLES memory, \* the length of the array at _data; 0 is none
          capacity, size,
          bare    \* the last call was a setCapacity that gave new memory

rawVars == <<memory, capacity, size, bare>>

Small == 2
Capacities == 1..MaxCapacity

Init == memory = 0 /\ capacity = 0 /\ size = 0 /\ bare = FALSE

Reused(n) == memory > 0 /\ n <= capacity /\ (capacity < Small \/ 2 * n > capacity)

\* mutant: small buffers are taken for large enough
ReserveSmall(n) == IF memory > 0 /\ (capacity < Small \/ (n <= capacity /\ 2 * n > capacity))
                   THEN UNCHANGED <<memory, capacity>>
                   ELSE memory' = n /\ capacity' = n

Reserve(n) == IF Reused(n) THEN UNCHANGED <<memory, capacity>>
              ELSE memory' = n /\ capacity' = n

SetCapacity(n) == Reserve(n) /\ bare' = (bare \/ ~Reused(n)) /\ UNCHANGED size

\* The exception leaves the size.
SetSize(n) == /\ size' = IF n > capacity THEN size ELSE n
              /\ bare' = (bare /\ n > capacity)
              /\ UNCHANGED <<memory, capacity>>

\* The characters and a terminator are copied in.
Assign(n) == /\ Reserve(n + 1)
             /\ size' = n /\ bare' = FALSE

Next == \E n \in Capacities : SetCapacity(n) \/ SetSize(n) \/ Assign(n)

Spec == Init /\ [][Next]_rawVars

-----------------------------------------------------------------------------
\* The size is inside the memory, unless the memory was replaced and the size not
\* set since.
SizeFits == capacity = memory /\ (size <= memory \/ bare)

\* assign leaves room for the terminator, however the memory was reused, and
\* memory is never more than twice what was asked for, beyond the small size.
AssignFits == \A n \in Capacities : Assign(n) =>
    memory' > n /\ (memory' >= Small => memory' <= 2 * (n + 1))
=============================================================================
