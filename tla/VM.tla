---------------------------------- MODULE VM ----------------------------------
(***************************************************************************)
(* introduction-to-computer-systems/introduction-prework/vm.go: a machine  *)
(* with one byte-addressed memory, a program counter and two registers.    *)
(* Arithmetic is on bytes, so everything is modulo W, the size of a byte   *)
(* and of the memory alike.  One action is one round of compute's loop.    *)
(***************************************************************************)
EXTENDS Naturals

CONSTANTS W,       \* 256
          Start,   \* AddrOpCodeStart
          Images   \* the memories compute is called with

ASSUME SizeAssumption ==
    W \in Nat /\ Start \in Nat /\ 9 < W /\ 0 < Start /\ Start < W
ASSUME ImagesAssumption == Images \subseteq [0..(W - 1) -> 0..(W - 1)]

VARIABLES memory,     \* the memory
          registers,  \* PC, R1 and R2
          status,     \* "run", "halt", or how the process ended
          image       \* history: the memory compute was called with

vars == <<memory, registers, status, image>>

Byte == 0..(W - 1)

Load  == 1
Store == 2
Add   == 3
Sub   == 4
Addi  == 5
Subi  == 6
Jump  == 7
Beqz  == 8
Halt  == W - 1

StandardOpCodeSize == 3
AddrStoreLocation == 0

Init == /\ image \in Images
        /\ memory = image
        /\ registers = [r \in 0..2 |-> IF r = 0 THEN Start ELSE 0]
        /\ status = "run"

pc == registers[0]
At(i) == (pc + i) % W        \* pc+1 and pc+2 are bytes too
op == memory[pc]
arg1 == memory[At(1)]
arg2 == memory[At(2)]

\* Mutant of Fetched: the data segment can be executed.
FetchedAnywhere(n) == n \in Nat

\* readMemory with OpCode access lets the first n operands be read.
Fetched(n) == pc >= Start /\ \A i \in 1..n : At(i) >= Start

\* The instruction at pc is o, with operands that can be read; those in regs are
\* registers (another index is out of the range of the array).
Decode(o, regs) == /\ status = "run"
                   /\ Fetched(2)
                   /\ op = o
                   /\ \A r \in regs : r \in DOMAIN registers

\* The register gets the value and registers[0] moves on, in this order.
Assign(r, v) ==
    LET assigned == [registers EXCEPT ![r] = v]
    IN  /\ registers' = [assigned EXCEPT ![0] = (@ + StandardOpCodeSize) % W]
        /\ UNCHANGED <<memory, status, image>>

Plus(x, y) == (x + y) % W
Minus(x, y) == (x + W - y) % W

DoLoad == Decode(Load, {arg1}) /\ Assign(arg1, memory[arg2])

\* Mutant of DoStore: writeMemory takes any address of the data segment.
DoStoreAnywhere ==
    /\ Decode(Store, {arg1})
    /\ memory' = [memory EXCEPT ![arg2] = registers[arg1]]
    /\ registers' = [registers EXCEPT ![0] = Plus(@, StandardOpCodeSize)]
    /\ UNCHANGED <<status, image>>

DoStore ==
    /\ Decode(Store, {arg1})
    /\ arg2 = AddrStoreLocation
    /\ memory' = [memory EXCEPT ![arg2] = registers[arg1]]
    /\ registers' = [registers EXCEPT ![0] = Plus(@, StandardOpCodeSize)]
    /\ UNCHANGED <<status, image>>

DoAdd == /\ Decode(Add, {arg1, arg2})
         /\ Assign(arg1, Plus(registers[arg1], registers[arg2]))

DoSub == /\ Decode(Sub, {arg1, arg2})
         /\ Assign(arg1, Minus(registers[arg1], registers[arg2]))

DoAddi == /\ Decode(Addi, {arg1})
          /\ Assign(arg1, Plus(registers[arg1], arg2))

\* Mutant of DoSubi: the immediate is dropped.
DoSubiNothing == Decode(Subi, {arg1}) /\ Assign(arg1, registers[arg1])

DoSubi == /\ Decode(Subi, {arg1})
          /\ Assign(arg1, Minus(registers[arg1], arg2))

DoJump == /\ status = "run"
          /\ Fetched(1)
          /\ op = Jump
          /\ registers' = [registers EXCEPT ![0] = arg1]
          /\ UNCHANGED <<memory, status, image>>

DoBeqz == /\ Decode(Beqz, {arg1})
          /\ Assign(0, IF registers[arg1] = 0 THEN Plus(pc, arg2) ELSE pc)

Stop(how) == /\ status' = how
             /\ UNCHANGED <<memory, registers, image>>

DoHalt == status = "run" /\ Fetched(0) /\ op = Halt /\ Stop("halt")

Operands == [o \in 1..8 |-> IF o = Jump THEN 1 ELSE 2]

\* os.Exit(IllegalMemoryAccess) in readMemory, for the opcode or an operand.
FetchFault == /\ status = "run"
              /\ \/ ~Fetched(0)
                 \/ op \in 1..8 /\ ~Fetched(Operands[op])
              /\ Stop("access")

\* os.Exit(IllegalMemoryAccess) in writeMemory.
StoreFault == /\ Decode(Store, {arg1})
              /\ arg2 # AddrStoreLocation
              /\ Stop("access")

IllegalOpCode == /\ status = "run"
                 /\ Fetched(0)
                 /\ op \notin 1..8 \cup {Halt}
                 /\ Stop("opcode")

\* The index of a register is out of range: a panic.
RegisterFault == /\ status = "run"
                 /\ Fetched(2)
                 /\ \/ op \in {Load, Store, Addi, Subi, Beqz}
                          /\ arg1 \notin DOMAIN registers
                    \/ op \in {Add, Sub}
                          /\ ~({arg1, arg2} \subseteq DOMAIN registers)
                 /\ Stop("panic")

Next == \/ DoLoad \/ DoStore \/ DoAdd \/ DoSub \/ DoAddi \/ DoSubi \/ DoJump
        \/ DoBeqz \/ DoHalt
        \/ FetchFault \/ StoreFault \/ IllegalOpCode \/ RegisterFault

Spec == Init /\ [][Next]_vars

\* compute keeps looping, like a physical computer's clock.
FairSpec == Spec /\ WF_vars(Next)

-----------------------------------------------------------------------------
\* Type invariant: registers and memory stay bytes, whatever the program does.
TypeOK == /\ memory \in [Byte -> Byte]
          /\ registers \in [0..2 -> Byte]
          /\ status \in {"run", "halt", "access", "opcode", "panic"}
          /\ image \in [Byte -> Byte]

\* No program can change itself or its input: whatever it computes, memory
\* differs from what compute was called with in the output cell only.
ProgramUnchanged == \A a \in Byte \ {AddrStoreLocation} : memory[a] = image[a]

\* The machine ends only where the text of the program says so: normally at a
\* Halt in the instruction segment, with an opcode error at a byte that is none.
EndsWhereTheTextSays ==
    /\ status = "halt" => pc >= Start /\ image[pc] = Halt
    /\ status = "opcode" => pc >= Start /\ image[pc] \notin 1..8 \cup {Halt}
=============================================================================
