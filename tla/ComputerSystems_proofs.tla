------------------------ MODULE ComputerSystems_proofs ------------------------
(***************************************************************************)
(* Proofs about the two programs of introduction-to-computer-systems.      *)
(* VM, for every byte size, every start of the instruction segment and     *)
(* every memory compute may be called with.  Vec, for every set of vectors *)
(* and values and every bound on lengths: the types, that a vector reads   *)
(* as it was written, and that no call touches storage that is not         *)
(* allocated unless a growth failed.                                       *)
(***************************************************************************)
EXTENDS VM, Vec, WellFoundedInduction, TLAPS

LEMMA ByteArithmetic ==
    ASSUME NEW x \in Byte, NEW y \in Byte
    PROVE  Plus(x, y) \in Byte /\ Minus(x, y) \in Byte
BY SizeAssumption DEF Byte, Plus, Minus

LEMMA Operand ==
    ASSUME TypeOK
    PROVE  pc \in Byte /\ op \in Byte /\ arg1 \in Byte /\ arg2 \in Byte
<1>1. pc \in Byte
  BY DEF TypeOK, pc
<1>2. At(1) \in Byte /\ At(2) \in Byte
  BY <1>1, SizeAssumption DEF At, Byte
<1> QED
  BY <1>1, <1>2 DEF TypeOK, op, arg1, arg2

\* Assign keeps the registers bytes.
LEMMA AssignType ==
    ASSUME TypeOK, NEW r \in 0..2, NEW val \in Byte, Assign(r, val)
    PROVE  registers' \in [0..2 -> Byte]
<1> DEFINE assigned == [registers EXCEPT ![r] = val]
<1>1. assigned \in [0..2 -> Byte]
  BY DEF TypeOK
<1>2. (assigned[0] + 3) % W \in Byte
  BY <1>1, SizeAssumption DEF Byte
<1>3. registers' = [assigned EXCEPT ![0] = (assigned[0] + 3) % W]
  BY DEF Assign, StandardOpCodeSize
<1> QED
  BY <1>1, <1>2, <1>3

\* What holds of memory after every instruction.
IInv == TypeOK /\ ProgramUnchanged

\* The steps that leave the memory alone preserve the invariant as soon as the
\* registers stay bytes.
LEMMA RegisterStep ==
    ASSUME IInv, registers' \in [0..2 -> Byte], UNCHANGED <<memory, status, image>>
    PROVE  IInv'
BY DEF IInv, TypeOK, ProgramUnchanged, AddrStoreLocation, Byte

LEMMA StopStep ==
    ASSUME IInv, NEW how \in {"halt", "access", "opcode", "panic"}, Stop(how)
    PROVE  IInv'
BY DEF IInv, TypeOK, ProgramUnchanged, AddrStoreLocation, Byte, Stop

LEMMA NextIInv == IInv /\ [Next]_vars => IInv'
<1> SUFFICES ASSUME IInv, [Next]_vars PROVE IInv'
  OBVIOUS
<1>t. TypeOK
  BY DEF IInv
<1>a. pc \in Byte /\ op \in Byte /\ arg1 \in Byte /\ arg2 \in Byte
  BY <1>t, Operand
<1>d. DOMAIN registers = 0..2 /\ \A r \in 0..2 : registers[r] \in Byte
  BY <1>t DEF TypeOK
<1>s. ASSUME NEW r \in 0..2, NEW val \in Byte, Assign(r, val) PROVE IInv'
  BY <1>s, <1>t, AssignType, RegisterStep DEF Assign
<1>1. CASE DoLoad
  <2>1. arg1 \in 0..2 /\ memory[arg2] \in Byte
    BY <1>1, <1>a, <1>d, <1>t DEF DoLoad, Decode, TypeOK
  <2> QED
    BY <1>1, <2>1, <1>s DEF DoLoad
<1>2. CASE DoStore
  <2>1. arg1 \in 0..2 /\ registers[arg1] \in Byte
    BY <1>2, <1>d DEF DoStore, Decode
  <2>2. memory' = [memory EXCEPT ![0] = registers[arg1]]
    BY <1>2 DEF DoStore, AddrStoreLocation
  <2>3. memory' \in [Byte -> Byte]
    BY <2>1, <2>2, <1>t DEF TypeOK
  <2>4. Plus(registers[0], 3) \in Byte
    BY <1>d, ByteArithmetic, SizeAssumption DEF Byte
  <2>5. registers' \in [0..2 -> Byte]
    BY <1>2, <1>t, <2>4 DEF DoStore, TypeOK, StandardOpCodeSize
  <2>6. TypeOK'
    BY <1>2, <1>t, <2>3, <2>5 DEF DoStore, TypeOK
  <2>7. \A a \in Byte \ {0} : memory'[a] = memory[a]
    BY <2>2, <1>t DEF TypeOK
  <2>8. ProgramUnchanged'
    BY <1>2, <2>7 DEF IInv, ProgramUnchanged, DoStore, AddrStoreLocation, Byte
  <2> QED
    BY <2>6, <2>8 DEF IInv
<1>3. CASE DoAdd
  <2>1. arg1 \in 0..2 /\ Plus(registers[arg1], registers[arg2]) \in Byte
    BY <1>3, <1>d, ByteArithmetic DEF DoAdd, Decode
  <2> QED
    BY <1>3, <2>1, <1>s DEF DoAdd
<1>4. CASE DoSub
  <2>1. arg1 \in 0..2 /\ Minus(registers[arg1], registers[arg2]) \in Byte
    BY <1>4, <1>d, ByteArithmetic DEF DoSub, Decode
  <2> QED
    BY <1>4, <2>1, <1>s DEF DoSub
<1>5. CASE DoAddi
  <2>1. arg1 \in 0..2 /\ Plus(registers[arg1], arg2) \in Byte
    BY <1>5, <1>a, <1>d, ByteArithmetic DEF DoAddi, Decode
  <2> QED
    BY <1>5, <2>1, <1>s DEF DoAddi
<1>6. CASE DoSubi
  <2>1. arg1 \in 0..2 /\ Minus(registers[arg1], arg2) \in Byte
    BY <1>6, <1>a, <1>d, ByteArithmetic DEF DoSubi, Decode
  <2> QED
    BY <1>6, <2>1, <1>s DEF DoSubi
<1>7. CASE DoJump
  <2>1. registers' \in [0..2 -> Byte]
    BY <1>7, <1>a, <1>t DEF DoJump, TypeOK
  <2> QED
    BY <1>7, <2>1, RegisterStep DEF DoJump
<1>8. CASE DoBeqz
  <2>1. (IF registers[arg1] = 0 THEN Plus(pc, arg2) ELSE pc) \in Byte
    BY <1>a, ByteArithmetic
  <2> QED
    BY <1>8, <2>1, <1>s DEF DoBeqz
<1>9. CASE DoHalt \/ FetchFault \/ StoreFault \/ IllegalOpCode \/ RegisterFault
  BY <1>9, StopStep DEF DoHalt, FetchFault, StoreFault, IllegalOpCode,
                        RegisterFault
<1>10. CASE UNCHANGED vars
  BY <1>10, <1>t, RegisterStep DEF vars, TypeOK
<1> QED
  BY <1>1, <1>2, <1>3, <1>4, <1>5, <1>6, <1>7, <1>8, <1>9, <1>10 DEF Next

LEMMA Inductive == Spec => []IInv
<1>1. Init => IInv
  BY SizeAssumption, ImagesAssumption
     DEF Init, IInv, TypeOK, ProgramUnchanged, Byte, AddrStoreLocation
<1> QED
  BY <1>1, NextIInv, PTL DEF Spec

\* compute's registers and memory cells remain bytes for every program.
THEOREM TypeCorrect == Spec => []TypeOK
<1>1. IInv => TypeOK
  BY DEF IInv
<1> QED
  BY <1>1, Inductive, PTL

\* writeMemory lets no program change its own instructions or its input.
THEOREM NoSelfModification == Spec => []ProgramUnchanged
<1>1. IInv => ProgramUnchanged
  BY DEF IInv
<1> QED
  BY <1>1, Inductive, PTL

\* The instruction under the program counter is the one compute was given: what
\* the machine stops at is in the text of the program.
LEMMA TextUnderPC ==
    ASSUME IInv, pc >= Start
    PROVE  op = image[pc]
<1>1. pc \in Byte /\ pc # 0
  BY Operand, SizeAssumption DEF IInv, Byte
<1> QED
  BY <1>1 DEF IInv, ProgramUnchanged, AddrStoreLocation, op

LEMMA NextEnds ==
    IInv /\ EndsWhereTheTextSays /\ [Next]_vars => EndsWhereTheTextSays'
<1> SUFFICES ASSUME IInv, EndsWhereTheTextSays, [Next]_vars
             PROVE  EndsWhereTheTextSays'
  OBVIOUS
<1>1. CASE DoHalt
  <2>1. status' = "halt" /\ pc >= Start /\ image[pc] = Halt
    BY <1>1, TextUnderPC DEF DoHalt, Stop, Fetched
  <2> QED
    BY <1>1, <2>1 DEF DoHalt, Stop, EndsWhereTheTextSays, pc, Halt
<1>2. CASE IllegalOpCode
  <2>1. status' = "opcode" /\ pc >= Start /\ image[pc] \notin 1..8 \cup {Halt}
    BY <1>2, TextUnderPC DEF IllegalOpCode, Stop, Fetched
  <2> QED
    BY <1>2, <2>1 DEF IllegalOpCode, Stop, EndsWhereTheTextSays, pc, Halt
<1>3. CASE FetchFault \/ StoreFault \/ RegisterFault
  BY <1>3 DEF FetchFault, StoreFault, RegisterFault, Stop, EndsWhereTheTextSays
<1>4. CASE DoLoad \/ DoAdd \/ DoSub \/ DoAddi \/ DoSubi \/ DoBeqz
  <2>1. status = "run" /\ status' = status
    BY <1>4 DEF DoLoad, DoAdd, DoSub, DoAddi, DoSubi, DoBeqz, Decode, Assign
  <2> QED
    BY <2>1 DEF EndsWhereTheTextSays
<1>5. CASE DoStore \/ DoJump
  <2>1. status = "run" /\ status' = status
    BY <1>5 DEF DoStore, DoJump, Decode
  <2> QED
    BY <2>1 DEF EndsWhereTheTextSays
<1>6. CASE UNCHANGED vars
  BY <1>6 DEF vars, EndsWhereTheTextSays, pc, Halt
<1> QED
  BY <1>1, <1>2, <1>3, <1>4, <1>5, <1>6 DEF Next

\* compute returns at a Halt of the program text, and reports an illegal opcode
\* at a byte of it that is none.
THEOREM EndsInText == Spec => []EndsWhereTheTextSays
<1>1. Init => EndsWhereTheTextSays
  BY DEF Init, EndsWhereTheTextSays
<1> QED
  BY <1>1, NextEnds, Inductive, PTL DEF Spec

-----------------------------------------------------------------------------
\* What is known of a vector w that is alive: allocated_len is its largest
\* length so far, and all of its storage, hidden elements included, holds what
\* was written.
Sound(w, high, content, fail) ==
    /\ w.len <= w.allocated_len
    /\ w.allocated_len = high
    /\ w.data = content
    /\ w.null /\ w.allocated_len > 0 => fail

VecInv == /\ VecTypeOK
          /\ \A x \in Vector :
                vec[x].alive => Sound(vec[x], highest[x], written[x], failed)
          /\ crashed => failed

Header == [alive : BOOLEAN, len : Length, allocated_len : Length, null : BOOLEAN,
           data : [Index -> Value]]

\* calloc clears all of the storage.
LEMMA ZerosType == Zeros \in [Index -> Value] /\ Calloc = Zeros
  BY VecAssumption DEF Zeros, Calloc

\* A call that changes the one vector x keeps the invariant if it keeps it for x.
LEMMA OneVector ==
    ASSUME VecInv, NEW x \in Vector, NEW w \in Header, NEW h \in Length,
           NEW content \in [Index -> Value],
           vec' = [vec EXCEPT ![x] = w],
           highest' = [highest EXCEPT ![x] = h],
           written' = [written EXCEPT ![x] = content],
           failed' \in BOOLEAN, failed => failed',
           w.alive => Sound(w, h, content, failed'),
           crashed' \in BOOLEAN, crashed' => failed',
           DOMAIN result' \in {{}, {1}}
    PROVE  VecInv'
<1>1. VecTypeOK'
  <2>1. vec' \in [Vector -> Header]
    BY DEF VecInv, VecTypeOK, Header
  <2>2. highest' \in [Vector -> Length] /\ written' \in [Vector -> [Index -> Value]]
    BY DEF VecInv, VecTypeOK
  <2> QED
    BY <2>1, <2>2 DEF VecTypeOK, Header
<1>2. ASSUME NEW y \in Vector, vec'[y].alive
      PROVE Sound(vec'[y], highest'[y], written'[y], failed')
  <2>1. CASE y = x
    BY <1>2, <2>1 DEF VecInv, VecTypeOK
  <2>2. CASE y # x
    <3>1. vec'[y] = vec[y] /\ highest'[y] = highest[y] /\ written'[y] = written[y]
      BY <2>2 DEF VecInv, VecTypeOK
    <3> QED
      BY <1>2, <3>1 DEF VecInv, Sound
  <2> QED
    BY <2>1, <2>2
<1> QED
  BY <1>1, <1>2 DEF VecInv

\* Any call keeps the types and what is known of each vector.
LEMMA VecInductive == VecInv /\ [VecNext]_vecVars => VecInv'
<1> SUFFICES ASSUME VecInv, [VecNext]_vecVars PROVE VecInv'
  OBVIOUS
<1>1. CASE UNCHANGED vecVars
  BY <1>1 DEF vecVars, VecInv, VecTypeOK, Sound
<1>2. ASSUME NEW x \in Vector, Free(x) PROVE VecInv'
  <2> DEFINE w == [vec[x] EXCEPT !.alive = FALSE]
  <2>1. /\ w \in Header /\ ~w.alive
        /\ highest[x] \in Length /\ written[x] \in [Index -> Value]
    BY DEF VecInv, VecTypeOK, Header
  <2>2. /\ vec' = [vec EXCEPT ![x] = w]
        /\ highest' = [highest EXCEPT ![x] = highest[x]]
        /\ written' = [written EXCEPT ![x] = written[x]]
    BY <1>2 DEF Free, VecInv, VecTypeOK
  <2>3. /\ UNCHANGED <<crashed, failed>>
        /\ DOMAIN result' = {}
    BY <1>2 DEF Free
  <2> HIDE DEF w
  <2> QED
    BY <2>1, <2>2, <2>3, OneVector DEF VecInv, VecTypeOK
<1>3. ASSUME NEW x \in Vector, NEW n \in Length, New(x, n) PROVE VecInv'
  <2> DEFINE w == [alive |-> TRUE, len |-> n, allocated_len |-> n,
                   null |-> n <= 0, data |-> Calloc]
  <2>1. /\ w \in Header /\ Zeros \in [Index -> Value]
        /\ Sound(w, n, Zeros, failed)
    <3>1. n \in Int /\ (n <= 0) \in BOOLEAN
      BY VecAssumption DEF Length
    <3>2. w \in Header
      BY <3>1, ZerosType DEF Header
    <3>3. w.len = n /\ w.allocated_len = n /\ w.data = Calloc
      OBVIOUS
    <3>4. ~(w.null /\ w.allocated_len > 0)
      <4>1. (w.null <=> n <= 0) /\ w.allocated_len = n
        BY Zenon
      <4> HIDE DEF w
      <4> QED
        BY <3>1, <4>1
    <3> HIDE DEF w
    <3> QED
      BY <3>1, <3>2, <3>3, <3>4, ZerosType DEF Sound
  <2>2. /\ vec' = [vec EXCEPT ![x] = w]
        /\ highest' = [highest EXCEPT ![x] = n]
        /\ written' = [written EXCEPT ![x] = Zeros]
        /\ UNCHANGED <<crashed, failed>>
        /\ DOMAIN result' = {}
    BY <1>3 DEF New
  <2> HIDE DEF w
  <2> QED
    BY <2>1, <2>2, OneVector DEF VecInv, VecTypeOK
<1>4. ASSUME NEW x \in Vector, NEW n \in Length, SetLength(x, n) PROVE VecInv'
  <2>1. PICK null \in BOOLEAN :
          /\ failed' = (failed \/ (Grows(vec[x], n) /\ null))
          /\ vec' = [vec EXCEPT ![x] =
                IF Grows(@, n) THEN [@ EXCEPT !.len = n, !.allocated_len = n,
                                              !.null = null, !.data = Calloc]
                ELSE [@ EXCEPT !.len = n]]
    BY <1>4 DEF SetLength
  <2> DEFINE w == IF Grows(vec[x], n)
                  THEN [vec[x] EXCEPT !.len = n, !.allocated_len = n,
                                      !.null = null, !.data = Calloc]
                  ELSE [vec[x] EXCEPT !.len = n]
             h == IF n > highest[x] THEN n ELSE highest[x]
             content == IF n > highest[x] THEN Zeros ELSE written[x]
  <2>2. /\ vec[x] \in Header /\ vec[x].alive
        /\ Sound(vec[x], highest[x], written[x], failed)
        /\ highest[x] \in Length /\ written[x] \in [Index -> Value]
    BY <1>4 DEF VecInv, VecTypeOK, Header, SetLength
  <2>3. w \in Header /\ h \in Length /\ content \in [Index -> Value]
    BY <2>2, ZerosType DEF Header
  <2>4. Sound(w, h, content, failed')
    <3>1. CASE Grows(vec[x], n)
      <4>1. /\ w.len = n /\ w.allocated_len = n /\ w.null = null /\ w.data = Calloc
            /\ n > highest[x] /\ h = n /\ content = Zeros
        BY <2>2, <3>1 DEF Header, Sound, Grows
      <4>2. null => failed'
        BY <2>1, <3>1
      <4> HIDE DEF w, h, content
      <4> QED
        BY <4>1, <4>2, ZerosType DEF Sound, Length
    <3>2. CASE ~Grows(vec[x], n)
      <4>1. /\ w.len = n /\ w.allocated_len = vec[x].allocated_len
            /\ w.null = vec[x].null /\ w.data = vec[x].data
            /\ n <= vec[x].allocated_len
            /\ h = highest[x] /\ content = written[x]
        BY <2>2, <3>2 DEF Header, Sound, Grows, Length
      <4>2. failed => failed'
        BY <2>1
      <4> HIDE DEF w, h, content
      <4> QED
        BY <2>2, <4>1, <4>2 DEF Sound
    <3> QED
      BY <3>1, <3>2
  <2>5. /\ vec' = [vec EXCEPT ![x] = w]
        /\ highest' = [highest EXCEPT ![x] = h]
        /\ written' = [written EXCEPT ![x] = content]
        /\ crashed' = crashed
        /\ DOMAIN result' = {}
    <3>1. vec' = [vec EXCEPT ![x] = w]
      BY <2>1
    <3>2. /\ highest' = [highest EXCEPT ![x] = h]
          /\ written' = [written EXCEPT ![x] = content]
      BY <1>4 DEF SetLength
    <3>3. crashed' = crashed /\ result' = <<>>
      BY <1>4 DEF SetLength
    <3> HIDE DEF w, h, content
    <3> QED
      BY <3>1, <3>2, <3>3
  <2>6. failed' \in BOOLEAN /\ (failed => failed')
    BY <2>1 DEF VecInv, VecTypeOK
  <2>7. crashed' \in BOOLEAN /\ (crashed' => failed')
    BY <2>5, <2>6 DEF VecInv, VecTypeOK
  <2> HIDE DEF w, h, content
  <2> QED
    BY <2>3, <2>4, <2>5, <2>6, <2>7, OneVector
<1>5. ASSUME NEW x \in Vector, NEW i \in -1..MaxLen, NEW val \in Value, Set(x, i, val),
             ~crashed
      PROVE VecInv'
  <2>1. /\ vec[x] \in Header /\ vec[x].alive
        /\ Sound(vec[x], highest[x], written[x], failed)
        /\ highest[x] \in Length /\ written[x] \in [Index -> Value]
    BY <1>5 DEF VecInv, VecTypeOK, Header, Set
  <2>2. CASE InRange(x, i) /\ Allocated(x, i)
    <3> DEFINE w == [vec[x] EXCEPT !.data = [@ EXCEPT ![i] = val]]
               content == [written[x] EXCEPT ![i] = val]
    <3>1. i \in Index
      BY <2>1, <2>2, VecAssumption DEF InRange, Index, Length, Header
    <3>2. w \in Header /\ content \in [Index -> Value]
      BY <2>1, <3>1 DEF Header
    <3>3. Sound(w, highest[x], content, failed)
      BY <2>1, <3>1 DEF Header, Sound
    <3>4. /\ vec' = [vec EXCEPT ![x] = w]
          /\ highest' = [highest EXCEPT ![x] = highest[x]]
          /\ written' = [written EXCEPT ![x] = content]
          /\ failed' = failed
          /\ crashed' = FALSE
          /\ DOMAIN result' = {}
      BY <1>5, <2>2 DEF Set, VecInv, VecTypeOK
    <3> HIDE DEF w, content
    <3> QED
      BY <2>1, <3>2, <3>3, <3>4, OneVector DEF VecInv, VecTypeOK
  <2>3. CASE ~(InRange(x, i) /\ Allocated(x, i))
    <3>1. /\ UNCHANGED <<vec, written, failed, highest>>
          /\ crashed' = (InRange(x, i) /\ ~Allocated(x, i))
          /\ DOMAIN result' = {}
      BY <1>5, <2>3 DEF Set
    <3>2. ASSUME InRange(x, i), ~Allocated(x, i) PROVE failed
      BY <2>1, <3>2 DEF InRange, Allocated, Sound, Header, Length
    <3> QED
      BY <3>1, <3>2 DEF VecInv, VecTypeOK, Sound
  <2> QED
    BY <2>2, <2>3
<1>6. ASSUME DotProduct, ~crashed PROVE VecInv'
  <2>1. /\ UNCHANGED <<vec, failed, highest, written>>
        /\ crashed' \in BOOLEAN
        /\ DOMAIN result' \in {{}, {1}}
    <3>1. \/ crashed' = FALSE /\ \E n : result' = <<n>>
          \/ crashed' = TRUE /\ result' = <<>>
      BY <1>6, Zenon DEF DotProduct
    <3>2. \A n : DOMAIN <<n>> = {1}
      OBVIOUS
    <3>3. DOMAIN <<>> = {}
      OBVIOUS
    <3> QED
      BY <1>6, <3>1, <3>2, <3>3 DEF DotProduct
  <2>2. ASSUME crashed' PROVE failed
    <3> DEFINE safe == \A i \in 0..(vec[u].len - 1) :
                          Allocated(u, i) /\ (InRange(v, i) => Allocated(v, i))
    <3>0. ~safe
      <4>1. safe => crashed' = FALSE
        <5> HIDE DEF safe
        <5>1. IF safe
              THEN /\ \E stack \in Value : result' = <<Partial(stack)[vec[u].len].sum>>
                   /\ crashed' = FALSE
              ELSE result' = <<>> /\ crashed' = TRUE
          BY <1>6 DEF DotProduct, safe
        <5> QED
          BY <5>1
      <4> QED
        BY <4>1, <2>2
    <3>1. PICK i \in 0..(vec[u].len - 1) :
             ~(Allocated(u, i) /\ (InRange(v, i) => Allocated(v, i)))
      BY <3>0
    <3>2. ASSUME NEW x \in Vector, vec[x].alive, i < vec[x].len, ~Allocated(x, i)
          PROVE failed
      <4>1. vec[x] \in Header /\ Sound(vec[x], highest[x], written[x], failed)
        BY <3>2 DEF VecInv, VecTypeOK, Header
      <4> QED
        BY <3>2, <4>1, i \in Nat DEF Allocated, Sound, Header, Length
    <3>3. u \in Vector /\ v \in Vector /\ vec[u].alive /\ vec[v].alive
      BY <1>6, VecAssumption DEF DotProduct
    <3>4. vec[u].len \in Int
      BY <3>3 DEF VecInv, VecTypeOK, Length
    <3> QED
      BY <3>1, <3>2, <3>3, <3>4 DEF InRange
  <2> QED
    BY <2>1, <2>2 DEF VecInv, VecTypeOK, Sound
<1> QED
  BY <1>1, <1>2, <1>3, <1>4, <1>5, <1>6 DEF VecNext

\* The invariant holds initially.
LEMMA VecInitial == VecInit => VecInv
<1> SUFFICES ASSUME VecInit PROVE VecInv
  OBVIOUS
<1>1. 0 \in Length
  BY VecAssumption DEF Length
<1>2. vec \in [Vector -> Header] /\ \A x \in Vector : ~vec[x].alive
  BY <1>1, ZerosType DEF VecInit, Header
<1>3. VecTypeOK
  <2>1. highest \in [Vector -> Length] /\ written \in [Vector -> [Index -> Value]]
    BY <1>1, ZerosType DEF VecInit
  <2>2. DOMAIN result = {} /\ crashed \in BOOLEAN /\ failed \in BOOLEAN
    <3>1. result = <<>> /\ ~crashed /\ ~failed
      BY Zenon DEF VecInit
    <3>2. crashed \in BOOLEAN /\ failed \in BOOLEAN
      BY Zenon DEF VecInit
    <3> QED
      BY <3>1, <3>2
  <2> QED
    BY <1>2, <2>1, <2>2 DEF VecTypeOK, Header
<1> QED
  BY <1>2, <1>3 DEF VecInit, VecInv

LEMMA VecInvariant == VecSpec => []VecInv
  BY VecInitial, VecInductive, PTL DEF VecSpec

\* Vectors have their types whatever is called, for every bound and every value.
THEOREM VecTypeCorrect == VecSpec => []VecTypeOK
<1>1. VecInv => VecTypeOK
  BY DEF VecInv
<1> QED
  BY <1>1, VecInvariant, PTL

\* new_vec, set_vec_length and the bounds checks together keep every access in
\* allocated storage, but for a set_vec_length whose calloc failed.
THEOREM AccessesAllocated == VecSpec => []CrashOnlyIfGrowthFailed
<1>1. VecInv => CrashOnlyIfGrowthFailed
  BY DEF VecInv, CrashOnlyIfGrowthFailed
<1> QED
  BY <1>1, VecInvariant, PTL

\* Elements read as written; only growth past the largest length so far clears
\* them, although the code compares with allocated_len.
THEOREM Reads == VecSpec => []ReadsAsWritten
<1>1. VecInv => ReadsAsWritten
  BY DEF VecInv, ReadsAsWritten, Sound
<1> QED
  BY <1>1, VecInvariant, PTL

-----------------------------------------------------------------------------
(* The inner product.                                                      *)

LEMMA Least ==
    ASSUME NEW T, T \subseteq Nat, T # {}
    PROVE  \E n \in T : \A m \in T : n <= m
<1>1. IsWellFoundedOn(OpToRel(<, Nat), Nat)
  BY NatLessThanWellFounded
<1>2. PICK n \in T : \A m \in T : <<m, n>> \notin OpToRel(<, Nat)
  BY <1>1, WFMin
<1>3. ASSUME NEW m \in T PROVE n <= m
  <2>1. n \in Nat /\ m \in Nat
    OBVIOUS
  <2>2. ~(m < n)
    BY <1>2, <2>1 DEF OpToRel
  <2> QED
    BY <2>1, <2>2
<1> QED
  BY <1>3

LEMMA Induction ==
    ASSUME NEW S, 0 \in S, \A n \in Nat : n \in S => n + 1 \in S
    PROVE  Nat \subseteq S
<1> SUFFICES ASSUME Nat \ S # {} PROVE FALSE
  OBVIOUS
<1>1. Nat \ S \subseteq Nat
  OBVIOUS
<1>2. PICK n \in Nat \ S : \A m \in Nat \ S : n <= m
  BY <1>1, Least
<1>3. n # 0 /\ n \in Nat
  OBVIOUS
<1>4. n - 1 \in Nat /\ ~(n <= n - 1) /\ (n - 1) + 1 = n
  BY <1>3
<1>5. n - 1 \in S
  BY <1>2, <1>4
<1> QED
  BY <1>4, <1>5

\* The loop of dotproduct is well defined: each round refers to the one before.
LEMMA PartialIs ==
    ASSUME NEW stack
    PROVE  \A n \in Length : Partial(stack)[n] =
             IF n <= 0 THEN [sum |-> 0, v_val |-> stack]
             ELSE LET v_val == IF InRange(v, n - 1) THEN vec[v].data[n - 1] ELSE Partial(stack)[n - 1].v_val
                  IN  [sum |-> Partial(stack)[n - 1].sum + vec[u].data[n - 1] * v_val, v_val |-> v_val]
<1> DEFINE Round(i, r) == LET v_val == IF InRange(v, i) THEN vec[v].data[i] ELSE r.v_val
                          IN  [sum |-> r.sum + vec[u].data[i] * v_val, v_val |-> v_val]
           first == [sum |-> 0, v_val |-> stack]
           Low(j) == {n \in Length : n <= j}
           P(j) == \E f : f = [n \in Low(j) |-> IF n <= 0 THEN first ELSE Round(n - 1, f[n - 1])]
           S == {j \in Nat : P(j)}
           p == CHOOSE f : f = [n \in Length |-> IF n <= 0 THEN first ELSE Round(n - 1, f[n - 1])]
<1>1. Length \subseteq Int /\ MaxLen \in Nat /\ \A n \in Length : n > 0 => n - 1 \in Length
  BY VecAssumption DEF Length
<1>2. \A x : Partial(stack)[x] = p[x]
  BY DEF Partial
<1> HIDE DEF Round, first
<1>3. P(0)
  <2> DEFINE f == [n \in Low(0) |-> first]
  <2>1. f = [n \in Low(0) |-> IF n <= 0 THEN first ELSE Round(n - 1, f[n - 1])]
    OBVIOUS
  <2> QED
    BY <2>1
<1>4. ASSUME NEW j \in Nat, P(j) PROVE P(j + 1)
  <2>1. PICK f : f = [n \in Low(j) |-> IF n <= 0 THEN first ELSE Round(n - 1, f[n - 1])]
    BY <1>4
  <2> DEFINE g == [n \in Low(j + 1) |-> IF n <= 0 THEN first ELSE Round(n - 1, f[n - 1])]
  <2>2. \A n \in Low(j) : g[n] = f[n] /\ n \in Low(j + 1)
    BY <1>1, <2>1
  <2>3. \A n \in Low(j + 1) : n > 0 => n - 1 \in Low(j)
    BY <1>1
  <2> HIDE DEF g
  <2>4. \A n \in Low(j + 1) : n > 0 => g[n - 1] = f[n - 1]
    BY <2>2, <2>3
  <2>5. g = [n \in Low(j + 1) |-> IF n <= 0 THEN first ELSE Round(n - 1, g[n - 1])]
    <3>1. ASSUME NEW n \in Low(j + 1)
          PROVE  (IF n <= 0 THEN first ELSE Round(n - 1, f[n - 1]))
                   = (IF n <= 0 THEN first ELSE Round(n - 1, g[n - 1]))
      <4>1. CASE n <= 0
        BY <4>1
      <4>2. CASE ~(n <= 0)
        <5>1. g[n - 1] = f[n - 1]
          BY <1>1, <2>4, <4>2
        <5> QED
          BY <4>2, <5>1
      <4> QED
        BY <4>1, <4>2
    <3> QED
      BY <3>1 DEF g
  <2> QED
    BY <2>5
<1> HIDE DEF P
<1>5. 0 \in S /\ \A j \in Nat : j \in S => j + 1 \in S
  BY <1>3, <1>4
<1>6. Nat \subseteq S
  BY <1>5, Induction
<1>7. P(MaxLen)
  BY <1>1, <1>6
<1>8. Low(MaxLen) = Length
  BY <1>1 DEF Length
<1>9. \E f : f = [n \in Length |-> IF n <= 0 THEN first ELSE Round(n - 1, f[n - 1])]
  BY <1>7, <1>8 DEF P
<1>10. p = [n \in Length |-> IF n <= 0 THEN first ELSE Round(n - 1, p[n - 1])]
  BY <1>9
<1> HIDE DEF p
<1>11. \A n \in Length : p[n] = IF n <= 0 THEN first ELSE Round(n - 1, p[n - 1])
  BY <1>10
<1> QED
  BY <1>2, <1>11 DEF Round, first

\* The sum of the products of the first n elements of two contents.
Products(a, b) == LET sum[n \in Length] == IF n <= 0 THEN 0 ELSE sum[n - 1] + a[n - 1] * b[n - 1]
                  IN  sum

LEMMA ProductsAre ==
    ASSUME NEW a, NEW b
    PROVE  \A n \in Length : Products(a, b)[n] =
             IF n <= 0 THEN 0 ELSE Products(a, b)[n - 1] + a[n - 1] * b[n - 1]
<1> DEFINE AddTerm(i, r) == r + a[i] * b[i]
           Low(j) == {n \in Length : n <= j}
           P(j) == \E f : f = [n \in Low(j) |-> IF n <= 0 THEN 0 ELSE AddTerm(n - 1, f[n - 1])]
           S == {j \in Nat : P(j)}
           p == CHOOSE f : f = [n \in Length |-> IF n <= 0 THEN 0 ELSE AddTerm(n - 1, f[n - 1])]
<1>1. Length \subseteq Int /\ MaxLen \in Nat /\ \A n \in Length : n > 0 => n - 1 \in Length
  BY VecAssumption DEF Length
<1>2. \A x : Products(a, b)[x] = p[x]
  BY DEF Products
<1> HIDE DEF AddTerm
<1>3. P(0)
  <2> DEFINE f == [n \in Low(0) |-> 0]
  <2>1. f = [n \in Low(0) |-> IF n <= 0 THEN 0 ELSE AddTerm(n - 1, f[n - 1])]
    OBVIOUS
  <2> QED
    BY <2>1
<1>4. ASSUME NEW j \in Nat, P(j) PROVE P(j + 1)
  <2>1. PICK f : f = [n \in Low(j) |-> IF n <= 0 THEN 0 ELSE AddTerm(n - 1, f[n - 1])]
    BY <1>4
  <2> DEFINE g == [n \in Low(j + 1) |-> IF n <= 0 THEN 0 ELSE AddTerm(n - 1, f[n - 1])]
  <2>2. \A n \in Low(j) : g[n] = f[n] /\ n \in Low(j + 1)
    BY <1>1, <2>1
  <2>3. \A n \in Low(j + 1) : n > 0 => n - 1 \in Low(j)
    BY <1>1
  <2> HIDE DEF g
  <2>4. \A n \in Low(j + 1) : n > 0 => g[n - 1] = f[n - 1]
    BY <2>2, <2>3
  <2>5. g = [n \in Low(j + 1) |-> IF n <= 0 THEN 0 ELSE AddTerm(n - 1, g[n - 1])]
    <3>1. ASSUME NEW n \in Low(j + 1)
          PROVE  (IF n <= 0 THEN 0 ELSE AddTerm(n - 1, f[n - 1]))
                   = (IF n <= 0 THEN 0 ELSE AddTerm(n - 1, g[n - 1]))
      <4>1. CASE n <= 0
        BY <4>1
      <4>2. CASE ~(n <= 0)
        <5>1. g[n - 1] = f[n - 1]
          BY <1>1, <2>4, <4>2
        <5> QED
          BY <4>2, <5>1
      <4> QED
        BY <4>1, <4>2
    <3> QED
      BY <3>1 DEF g
  <2> QED
    BY <2>5
<1> HIDE DEF P
<1>5. 0 \in S /\ \A j \in Nat : j \in S => j + 1 \in S
  BY <1>3, <1>4
<1>6. Nat \subseteq S
  BY <1>5, Induction
<1>7. P(MaxLen)
  BY <1>1, <1>6
<1>8. Low(MaxLen) = Length
  BY <1>1 DEF Length
<1>9. \E f : f = [n \in Length |-> IF n <= 0 THEN 0 ELSE AddTerm(n - 1, f[n - 1])]
  BY <1>7, <1>8 DEF P
<1>10. p = [n \in Length |-> IF n <= 0 THEN 0 ELSE AddTerm(n - 1, p[n - 1])]
  BY <1>9
<1> HIDE DEF p
<1>11. \A n \in Length : p[n] = IF n <= 0 THEN 0 ELSE AddTerm(n - 1, p[n - 1])
  BY <1>10
<1> QED
  BY <1>2, <1>11 DEF AddTerm

\* As long as the loop stays inside v, it sums the products of the data.
LEMMA PartialIsProducts ==
    ASSUME NEW stack, vec[v].len \in Int
    PROVE  \A n \in Length : n <= vec[v].len =>
             Partial(stack)[n].sum = Products(vec[u].data, vec[v].data)[n]
<1> DEFINE p == Partial(stack)
           q == Products(vec[u].data, vec[v].data)
           S == {j \in Nat : \A n \in Length : n <= j /\ n <= vec[v].len => p[n].sum = q[n]}
<1>1. Length \subseteq Int /\ MaxLen \in Nat /\ \A n \in Length : n > 0 => n - 1 \in Length
  BY VecAssumption DEF Length
<1>2. ASSUME NEW n \in Length, n <= 0 PROVE p[n].sum = q[n]
  <2>1. p[n] = [sum |-> 0, v_val |-> stack]
    BY <1>2, PartialIs
  <2>2. q[n] = 0
    BY <1>2, ProductsAre
  <2> HIDE DEF p, q
  <2> QED
    BY <2>1, <2>2
<1>3. ASSUME NEW n \in Length, n > 0, n <= vec[v].len, p[n - 1].sum = q[n - 1] PROVE p[n].sum = q[n]
  <2>1. ~(n <= 0)
    BY <1>1, <1>3
  <2>2. InRange(v, n - 1)
    BY <1>1, <1>3 DEF InRange
  <2>3. p[n].sum = p[n - 1].sum + vec[u].data[n - 1] * vec[v].data[n - 1]
    <3>1. p[n] = LET v_val == IF InRange(v, n - 1) THEN vec[v].data[n - 1] ELSE p[n - 1].v_val
                 IN  [sum |-> p[n - 1].sum + vec[u].data[n - 1] * v_val, v_val |-> v_val]
      BY <2>1, PartialIs
    <3> HIDE DEF p
    <3> QED
      BY <2>2, <3>1
  <2>4. q[n] = q[n - 1] + vec[u].data[n - 1] * vec[v].data[n - 1]
    BY <2>1, ProductsAre
  <2> HIDE DEF p, q
  <2> QED
    BY <1>3, <2>3, <2>4
<1> HIDE DEF p, q
<1>4. 0 \in S
  BY <1>2
<1>5. ASSUME NEW j \in Nat, j \in S PROVE j + 1 \in S
  <2> SUFFICES ASSUME NEW n \in Length, n <= j + 1, n <= vec[v].len PROVE p[n].sum = q[n]
    OBVIOUS
  <2>1. CASE n <= 0
    BY <1>2, <2>1
  <2>2. CASE n > 0
    <3>1. n - 1 \in Length /\ n - 1 <= j /\ n - 1 <= vec[v].len
      BY <1>1, <2>2
    <3>2. p[n - 1].sum = q[n - 1]
      BY <1>5, <3>1
    <3> QED
      BY <1>3, <2>2, <3>2
  <2> QED
    BY <1>1, <2>1, <2>2
<1>6. Nat \subseteq S
  BY <1>4, <1>5, Induction
<1>7. MaxLen \in S /\ \A n \in Length : n <= MaxLen
  BY <1>1, <1>6 DEF Length
<1> QED
  BY <1>7 DEF p, q

LEMMA DotProductSums ==
    ASSUME VecInv, DotProduct
    PROVE  DotProductIsInnerProduct'
<1>1. /\ u \in Vector /\ v \in Vector /\ vec[u].alive /\ vec[v].alive
      /\ vec[u].len \in Length /\ vec[v].len \in Int
      /\ vec[u].data = written[u] /\ vec[v].data = written[v]
      /\ UNCHANGED <<vec, written>>
  <2>1. u \in Vector /\ v \in Vector /\ vec[u].alive /\ vec[v].alive /\ UNCHANGED <<vec, written>>
    BY VecAssumption DEF DotProduct
  <2>2. vec[u].len \in Length /\ vec[v].len \in Length /\ Length \subseteq Int
    BY <2>1 DEF VecInv, VecTypeOK, Length
  <2>3. vec[u].data = written[u] /\ vec[v].data = written[v]
    BY <2>1 DEF VecInv, Sound
  <2> QED
    BY <2>1, <2>2, <2>3
<1> SUFFICES ASSUME result' # <<>>, vec[u].len <= vec[v].len
             PROVE  result' = <<Products(written[u], written[v])[vec[u].len]>>
  BY <1>1 DEF DotProductIsInnerProduct, Products
<1>2. PICK stack \in Value : result' = <<Partial(stack)[vec[u].len].sum>>
  <2> DEFINE safe == \A i \in 0..(vec[u].len - 1) :
                        Allocated(u, i) /\ (InRange(v, i) => Allocated(v, i))
  <2>1. IF safe THEN \E stack \in Value : result' = <<Partial(stack)[vec[u].len].sum>>
                ELSE result' = <<>>
    BY DEF DotProduct
  <2> HIDE DEF safe
  <2> QED
    BY <2>1
<1>3. Partial(stack)[vec[u].len].sum = Products(vec[u].data, vec[v].data)[vec[u].len]
  BY <1>1, PartialIsProducts
<1> QED
  BY <1>1, <1>2, <1>3

\* dotproduct returns the sum of the products of what was written to the two vectors,
\* for all lengths and values, if the second vector is not the shorter one: then it
\* never uses the v_val that get_vec_element leaves alone.
THEOREM InnerProduct == VecSpec => []DotProductIsInnerProduct
<1>1. VecInit => DotProductIsInnerProduct
  BY DEF VecInit, DotProductIsInnerProduct
<1>2. ASSUME VecInv, DotProductIsInnerProduct, [VecNext]_vecVars PROVE DotProductIsInnerProduct'
  <2>1. CASE UNCHANGED vecVars
    BY <1>2, <2>1 DEF DotProductIsInnerProduct, vecVars
  <2>2. CASE result' = <<>>
    BY <2>2 DEF DotProductIsInnerProduct
  <2>3. CASE DotProduct
    BY <1>2, <2>3, DotProductSums
  <2>4. VecNext => DotProduct \/ result' = <<>>
    BY DEF VecNext, Free, New, SetLength, Set
  <2> QED
    BY <1>2, <2>1, <2>2, <2>3, <2>4
<1> QED
  BY <1>1, <1>2, VecInvariant, PTL DEF VecSpec
=============================================================================
