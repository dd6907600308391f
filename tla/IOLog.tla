-------------------------------- MODULE IOLog --------------------------------
(* The captured-IO log: an active file and its rotated generations. A record  *)
(* that does not fit rotates the files first; a file operation may fail, and  *)
(* the process may die, between any two steps. Goroutines write one record at *)
(* a time, under the logger's lock. Files hold bytes, each named after the    *)
(* record it belongs to.                                                      *)
EXTENDS Naturals, Sequences

CONSTANTS
    Bodies,         \* lengths of response bodies
    MaxBody,        \* what is kept of a body (maxIOOutputBodyBytes)
    MaxBytes,       \* a file's limit (IOMaxBytes)
    MaxFiles,       \* the active file and the generations kept (IOMaxFiles)
    MaxRecords      \* bound on the records of a run

\* What is assumed of the constants.
LogAssumption ==
    /\ MaxFiles \in Nat \ {0} /\ MaxBytes \in Nat \ {0} /\ MaxRecords \in Nat
    /\ Bodies \subseteq Nat /\ MaxBody \in Nat

VARIABLES
    files,      \* files[0] is active, files[i] its i-th generation; absent is <<>>
    file,       \* the open file: "open", "none", or "closed" by a close that failed
    size,       \* the logger's idea of the active file's length
    written,    \* the length of each record the logger wrote without an error, else 0
    next,       \* the next record
    torn,       \* a rollback has failed and left bytes behind
    halted      \* a rotation has ended half-way

vars == <<files, file, size, written, next, torn, halted>>

-----------------------------------------------------------------------------
(* Records *)

\* Streamed bodies are only counted, others kept up to their limit.
Captured(body, stream) == IF stream THEN 0 ELSE IF body <= MaxBody THEN body ELSE MaxBody
Lengths == {1 + Captured(b, s) : b \in Bodies, s \in BOOLEAN}

Bytes(r, n) == [i \in 1..n |-> r]

-----------------------------------------------------------------------------
(* Files *)

Generations == 0..MaxFiles - 1

\* The files after the first k steps of a rotation: the oldest is removed, then each
\* is renamed to the generation after it, the active one last.
Shifted(f, k) ==
    [i \in Generations |-> IF i < MaxFiles - k THEN f[i]
                           ELSE IF i = MaxFiles - k THEN <<>> ELSE f[i - 1]]

Appended(f, bytes) == [f EXCEPT ![0] = @ \o bytes]
Truncated(f, n)    == [f EXCEPT ![0] = SubSeq(@, 1, IF Len(@) < n THEN Len(@) ELSE n)]

\* The length the logger goes by: that of the file, once a file had to be opened.
Known == IF file = "none" THEN Len(files[0]) ELSE size

\* Mutant: an empty file is rotated for a record longer than the limit.
FitsStrictly(n) == Known + n <= MaxBytes
\* A record that alone exceeds the limit still goes into an empty file.
Fits(n) == Known = 0 \/ Known + n <= MaxBytes

-----------------------------------------------------------------------------
(* Record, with the file opened where there is none *)

OpenFails ==
    /\ file = "none"
    /\ UNCHANGED <<files, file, size, written, torn, halted>>

\* A file that was closed refuses everything; so does the rollback of the write.
Closed ==
    /\ file = "closed"
    /\ UNCHANGED <<files, file, size, written, torn, halted>>

\* The write of n bytes to files f, of which the logger knows s bytes, or a part of
\* it that is rolled back, or cannot be.
Write(f, s, n) ==
    LET r == next IN
    /\ file' = "open"
    /\ \/ /\ files' = Appended(f, Bytes(r, n))
          /\ size' = s + n
          /\ written' = [written EXCEPT ![r] = n]
          /\ UNCHANGED torn
       \/ \E j \in 0..n :
            /\ size' = s
            /\ UNCHANGED written
            /\ \/ files' = Truncated(Appended(f, Bytes(r, j)), s) /\ UNCHANGED torn
               \/ files' = Appended(f, Bytes(r, j)) /\ torn' = (torn \/ j > 0)

Store(n) ==
    /\ file # "closed" /\ Fits(n)
    /\ Write(files, Known, n)
    /\ UNCHANGED halted

CloseFails(n) ==
    /\ file # "closed" /\ ~Fits(n)
    /\ file' = "closed"
    /\ size' = Known
    /\ UNCHANGED <<files, written, torn, halted>>

\* A step fails after k were done: the active file is opened again, if it can be.
RotationFails(n) ==
    /\ file # "closed" /\ ~Fits(n)
    /\ \E k \in 0..MaxFiles :
         /\ files' = Shifted(files, k)
         /\ \/ file' = "open" /\ size' = Len(files'[0])
            \/ file' = "none" /\ UNCHANGED size
         /\ halted' = (halted \/ k < MaxFiles)
    /\ UNCHANGED <<written, torn>>

Rotate(n) ==
    /\ file # "closed" /\ ~Fits(n)
    /\ Write(Shifted(files, MaxFiles), 0, n)
    /\ UNCHANGED halted

Record(n) ==
    /\ next <= MaxRecords
    /\ next' = next + 1
    /\ OpenFails \/ Closed \/ Store(n) \/ CloseFails(n) \/ RotationFails(n) \/ Rotate(n)

-----------------------------------------------------------------------------
(* The end of the process, and SetupIO of the next one *)

Reopened(f) == files' = f /\ file' = "open" /\ size' = Len(f[0])

SetupIO ==
    /\ Reopened(files)
    /\ UNCHANGED <<written, next, torn, halted>>

\* The process dies in the middle of a record.
Crash(n) ==
    /\ next <= MaxRecords /\ file # "closed"
    /\ next' = next + 1
    /\ \/ /\ Fits(n)
          /\ \E j \in 1..n : Reopened(Appended(files, Bytes(next, j)))
          /\ UNCHANGED halted
       \/ /\ ~Fits(n)
          /\ \E k \in 1..MaxFiles - 1 : Reopened(Shifted(files, k))
          /\ halted' = TRUE
    /\ UNCHANGED <<written, torn>>

-----------------------------------------------------------------------------
Init ==
    /\ files = [i \in Generations |-> <<>>]
    /\ file = "open" /\ size = 0
    /\ written = [r \in 1..MaxRecords |-> 0]
    /\ next = 1
    /\ torn = FALSE /\ halted = FALSE

Next == SetupIO \/ \E n \in Lengths : Record(n) \/ Crash(n)

Spec == Init /\ [][Next]_vars

-----------------------------------------------------------------------------
\* Every byte of f is of a record no newer than those of the bytes after it, in its file
\* and in the younger ones.
InOrder(f) ==
    \A i, k \in Generations : \A a \in 1..Len(f[i]), b \in 1..Len(f[k]) :
        i > k \/ (i = k /\ a < b) => f[i][a] <= f[k][b]

\* f has n bytes of record r and no others, one after the other in file g after s bytes.
HeldAt(f, r, n, g, s) ==
    /\ s + n <= Len(f[g])
    /\ \A i \in Generations : \A a \in 1..Len(f[i]) :
         f[i][a] = r <=> i = g /\ a \in s + 1..s + n
Holds(f, r, n) == \E g \in Generations : \E s \in 0..Len(f[g]) : HeldAt(f, r, n, g, s)

\* A file keeps to its limit or holds a single record.
Bounded(f) ==
    \A i \in Generations :
        Len(f[i]) <= MaxBytes \/ \A a \in 1..Len(f[i]) : f[i][a] = f[i][1]

\* Of the records reported as written, f has those from r on whole, and no other.
KeptFrom(f, r) ==
    \A q \in 1..next - 1 :
        written[q] > 0 => Holds(f, q, IF q < r THEN 0 ELSE written[q])

\* Nothing before r is forgotten while a generation is empty, unless a rotation ended
\* half-way.
Forgets(f, r) == \/ \A q \in 1..r - 1 : written[q] = 0
                 \/ halted
                 \/ \A i \in 1..MaxFiles - 1 : f[i] # <<>>

\* Unless a rollback failed: the files hold, whole and in order, the newest of the
\* records reported as written, beside fragments of records that were cut short; they
\* forget none without need; a file is bounded; the logger knows the length of the
\* active one.
LogIsBoundedTail ==
    ~torn =>
      /\ InOrder(files) /\ Bounded(files)
      /\ \E r \in 1..next : KeptFrom(files, r) /\ Forgets(files, r)
      /\ file = "open" => size = Len(files[0])
=============================================================================
