---------------------------------- MODULE Vec ----------------------------------
(***************************************************************************)
(* The vectors of optimization-prework/vec/vec.c and the inner product of  *)
(* dotproduct.c.  Any call may follow any other; calloc may fail.  Values  *)
(* are integers without overflow.                                          *)
(***************************************************************************)
EXTENDS Integers, Sequences

CONSTANTS Vector,  \* names of vectors; u and v are the arguments of dotproduct
          u, v,
          Value,   \* values of elements
          MaxLen   \* bound on lengths

ASSUME VecAssumption == /\ {u, v} \subseteq Vector
                        /\ Value \subseteq Int /\ 0 \in Value
                        /\ MaxLen \in Nat

VARIABLES vec,     \* vec[x]: is it alive, len, allocated_len, is data NULL, data
          result,  \* <<what dotproduct returned>>, empty after any other call
          crashed, \* an element that is not allocated was touched
          failed,  \* history: a set_vec_length could not allocate
          highest, \* history: the largest length of x so far
          written  \* history: what was set at each index since highest grew

vecVars == <<vec, result, crashed, failed, highest, written>>

Length == -1..MaxLen
Index  == 0..(MaxLen - 1)
Zeros  == [i \in Index |-> 0]

Calloc == [i \in Index |-> 0]

VecInit == /\ vec = [x \in Vector |-> [alive |-> FALSE, len |-> 0, allocated_len |-> 0,
                                    null |-> TRUE, data |-> Zeros]]
        /\ result = <<>>
        /\ crashed = FALSE
        /\ failed = FALSE
        /\ highest = [x \in Vector |-> 0]
        /\ written = [x \in Vector |-> Zeros]

\* new_vec; when storage runs out it returns NULL, and nothing is new.
New(x, n) == /\ ~vec[x].alive
             /\ vec' = [vec EXCEPT ![x] = [alive |-> TRUE, len |-> n, allocated_len |-> n,
                                          null |-> n <= 0, data |-> Calloc]]
             /\ highest' = [highest EXCEPT ![x] = n]
             /\ written' = [written EXCEPT ![x] = Zeros]
             /\ result' = <<>>
             /\ UNCHANGED <<crashed, failed>>

\* free_vec
Free(x) == /\ vec[x].alive
           /\ vec' = [vec EXCEPT ![x].alive = FALSE]
           /\ result' = <<>>
           /\ UNCHANGED <<crashed, failed, highest, written>>

\* Mutant of InRange: the last element is out of bounds.
InRangeShort(x, i) == 0 <= i /\ i < vec[x].len - 1

InRange(x, i) == 0 <= i /\ i < vec[x].len

\* data[i] is allocated.
Allocated(x, i) == ~vec[x].null /\ i < vec[x].allocated_len

\* set_vec_element
Set(x, i, val) ==
    /\ vec[x].alive
    /\ IF InRange(x, i) /\ Allocated(x, i)
       THEN /\ vec' = [vec EXCEPT ![x].data[i] = val]
            /\ written' = [written EXCEPT ![x][i] = val]
       ELSE UNCHANGED <<vec, written>>
    /\ crashed' = (InRange(x, i) /\ ~Allocated(x, i))
    /\ result' = <<>>
    /\ UNCHANGED <<failed, highest>>

\* Mutant of Grows: allocated_len is compared late.
GrowsLate(w, n) == n > w.allocated_len + 1

\* Mutant of Grows: compared with the present length.
GrowsEarly(w, n) == n > w.len

Grows(w, n) == n > w.allocated_len

\* set_vec_length, where calloc gives NULL or not.
SetLength(x, n) ==
    /\ vec[x].alive
    /\ \E null \in BOOLEAN :
          /\ failed' = (failed \/ (Grows(vec[x], n) /\ null))
          /\ vec' = [vec EXCEPT ![x] =
                IF Grows(@, n) THEN [@ EXCEPT !.len = n, !.allocated_len = n,
                                              !.null = null, !.data = Calloc]
                ELSE [@ EXCEPT !.len = n]]
    /\ highest' = [highest EXCEPT ![x] = IF n > @ THEN n ELSE @]
    /\ written' = [written EXCEPT ![x] = IF n > highest[x] THEN Zeros ELSE @]
    /\ result' = <<>>
    /\ UNCHANGED crashed

\* The loop of dotproduct when n elements are done.  get_vec_element leaves *dest
\* alone when the index is out of bounds: v_val is then what it was.
Partial(stack) ==
    LET p[n \in Length] ==
          IF n <= 0 THEN [sum |-> 0, v_val |-> stack]
          ELSE LET v_val == IF InRange(v, n - 1) THEN vec[v].data[n - 1] ELSE p[n - 1].v_val
               IN  [sum |-> p[n - 1].sum + vec[u].data[n - 1] * v_val, v_val |-> v_val]
    IN  p

\* dotproduct(u, v), with any value in the uninitialized v_val.
DotProduct ==
    /\ vec[u].alive /\ vec[v].alive
    /\ IF \A i \in 0..(vec[u].len - 1) : Allocated(u, i) /\ (InRange(v, i) => Allocated(v, i))
       THEN /\ \E stack \in Value : result' = <<Partial(stack)[vec[u].len].sum>>
            /\ crashed' = FALSE
       ELSE result' = <<>> /\ crashed' = TRUE
    /\ UNCHANGED <<vec, failed, highest, written>>

VecNext == /\ ~crashed
        /\ \/ \E x \in Vector :
                 \/ Free(x)
                 \/ \E n \in Length : New(x, n) \/ SetLength(x, n)
                 \/ \E i \in -1..MaxLen, val \in Value : Set(x, i, val)
           \/ DotProduct

VecSpec == VecInit /\ [][VecNext]_vecVars

-----------------------------------------------------------------------------
\* Type invariant.
VecTypeOK ==
    /\ vec \in [Vector -> [alive : BOOLEAN, len : Length, allocated_len : Length,
                           null : BOOLEAN, data : [Index -> Value]]]
    /\ DOMAIN result \in {{}, {1}}
    /\ crashed \in BOOLEAN /\ failed \in BOOLEAN
    /\ highest \in [Vector -> Length]
    /\ written \in [Vector -> [Index -> Value]]

\* No call touches an element that is not allocated, unless an earlier
\* set_vec_length ran out of memory: that one is not reported.
CrashOnlyIfGrowthFailed == crashed => failed

\* A vector reads as it was written.  Growing past its largest length so far, and
\* nothing else, sets it to zeros; what a shorter length hid comes back with a
\* longer one.
ReadsAsWritten ==
    \A x \in Vector : \A i \in 0..(vec[x].len - 1) :
        vec[x].alive /\ Allocated(x, i) => vec[x].data[i] = written[x][i]

\* dotproduct returns the inner product of the elements written if v is as long
\* as u; the comment asks for equal lengths, and longer ones do.
DotProductIsInnerProduct ==
    result # <<>> /\ vec[u].len <= vec[v].len =>
        LET sum[n \in Length] ==
              IF n <= 0 THEN 0 ELSE sum[n - 1] + written[u][n - 1] * written[v][n - 1]
        IN  result = <<sum[vec[u].len]>>
=============================================================================
