---------------------------- MODULE LoaderProofs ----------------------------
(***************************************************************************)
(* The boot command for every set of files: its state keeps its types, it  *)
(* enters the image where the first file says, and the trampoline does not *)
(* overwrite itself if the segments lie below it.                          *)
(***************************************************************************)
EXTENDS Loader, SequenceTheorems, TLAPS

-----------------------------------------------------------------------------
(***************************************************************************)
(* Arithmetic.                                                             *)
(***************************************************************************)
LEMMA Division ==
    ASSUME NEW a \in Int, NEW k \in Nat \ {0}
    PROVE  a = k * (a \div k) + (a % k) /\ a % k \in 0..k - 1 /\ a \div k \in Int
OBVIOUS

LEMMA Product == ASSUME NEW a \in Nat, NEW b \in Nat, NEW c \in Nat, a <= b PROVE c * a <= c * b
OBVIOUS

LEMMA DivisionUnique ==
    ASSUME NEW a \in Int, NEW k \in Nat \ {0}, NEW q \in Int, NEW r \in 0..k - 1, a = k * q + r
    PROVE  a % k = r
<1> DEFINE d == a \div k
           e == a % k
<1>1. a = k * d + e /\ e \in 0..k - 1 /\ d \in Int
  BY Division
<1> HIDE DEF d, e
<1>2. k * (q - d) = e - r /\ k * (d - q) = r - e
  BY <1>1
<1>3. ~(q - d >= 1)
  <2> SUFFICES ASSUME q - d >= 1 PROVE FALSE
    OBVIOUS
  <2>1. k * 1 <= k * (q - d)
    BY <1>1, Product
  <2> QED BY <1>1, <1>2, <2>1
<1>4. ~(d - q >= 1)
  <2> SUFFICES ASSUME d - q >= 1 PROVE FALSE
    OBVIOUS
  <2>1. k * 1 <= k * (d - q)
    BY <1>1, Product
  <2> QED BY <1>1, <1>2, <2>1
<1>5. q = d
  BY <1>1, <1>3, <1>4
<1>6. e = r
  BY <1>1, <1>5
<1> QED BY <1>6 DEF e

LEMMA RoundedUp == ASSUME NEW a \in Nat, NEW k \in Nat \ {0} PROVE (a + ((-a) % k)) % k = 0 /\ (-a) % k \in Nat
<1> DEFINE q == (-a) \div k
           r == (-a) % k
<1>1. -a = k * q + r /\ r \in 0..k - 1 /\ q \in Int
  BY Division
<1> HIDE DEF q, r
<1>2. a + r = k * (-q) + 0 /\ -q \in Int /\ a + r \in Int /\ 0 \in 0..k - 1
  BY <1>1
<1>3. (a + r) % k = 0
  BY <1>2, DivisionUnique
<1> QED BY <1>1, <1>3 DEF r

LEMMA SameRemainder ==
    ASSUME NEW x \in Int, NEW y \in Int, NEW k \in Nat \ {0}, y % k = 0 PROVE (x + y) % k = x % k
<1> DEFINE p == x \div k
           r == x % k
           q == y \div k
<1>1. x = k * p + r /\ r \in 0..k - 1 /\ p \in Int
  BY Division
<1>2. y = k * q + 0 /\ q \in Int
  BY Division
<1> HIDE DEF p, q, r
<1> DEFINE sum == x + y
           quo == p + q
<1>3. sum = k * quo + r /\ quo \in Int /\ sum \in Int
  BY <1>1, <1>2
<1> HIDE DEF sum, quo
<1>4. sum % k = r
  BY <1>1, <1>3, DivisionUnique
<1> QED BY <1>4 DEF r, sum

\* A command before the list
LEMMA Prepended ==
    ASSUME NEW S, NEW c \in S, NEW list \in Seq(S)
    PROVE  /\ <<c>> \o list \in Seq(S) /\ Len(<<c>> \o list) = 1 + Len(list)
           /\ (<<c>> \o list)[1] = c /\ Len(list) \in Nat
           /\ \A k \in 1..1 + Len(list) :
                 k # 1 => (<<c>> \o list)[k] = list[k - 1] /\ k - 1 \in 1..Len(list)
<1> DEFINE one == <<c>>
           all == one \o list
<1>1. one \in Seq(S) /\ Len(one) = 1 /\ one[1] = c /\ Len(list) \in Nat
  OBVIOUS
<1> HIDE DEF one
<1>2. /\ all \in Seq(S) /\ Len(all) = Len(one) + Len(list)
      /\ \A k \in 1..Len(one) + Len(list) : all[k] = IF k <= Len(one) THEN one[k] ELSE list[k - Len(one)]
  BY <1>1, ConcatProperties
<1> HIDE DEF all
<1>3. /\ all[1] = c /\ Len(all) = 1 + Len(list)
      /\ \A k \in 1..1 + Len(list) : k # 1 => all[k] = list[k - 1] /\ k - 1 \in 1..Len(list)
  BY <1>1, <1>2
<1> QED BY <1>1, <1>2, <1>3 DEF one, all

LEMMA Small == ASSUME NEW x \in Nat, NEW k \in Nat \ {0}, x < k PROVE x % k = x
OBVIOUS

-----------------------------------------------------------------------------
(***************************************************************************)
(* Types, and what is known at each point of the command.                  *)
(***************************************************************************)
load_command == [src : Nat, dst : Addr, copysz : Addr, zerosz : Addr]
Registers    == [a3 : Nat, src : Nat, dst : Nat, copysz : Addr, zerosz : Addr]

Started == pc \in {"next", "copy", "zero", "image"}
Loading == pc \in {"elf", "phdr"} \/ Started

LoaderTypeOK ==
    /\ pc \in {"shell", "receive", "elf", "phdr", "next", "copy", "zero", "image", "lost"}
    /\ files \in Seq(Images) /\ Len(files) <= MaxFiles
    /\ bufs \in Seq(Nat) /\ Len(bufs) <= Len(files)
    /\ staging \in Nat
    /\ at \in [file : 0..MaxFiles, phdr : Nat]
    /\ entry \in Int
    /\ commands \in Seq(load_command)
    /\ regs \in Registers
    /\ DOMAIN mem = Addr

\* The list of commands is ended by one without a source, before which the
\* trampoline stops
Progress ==
    /\ pc = "shell" => bufs = <<>> /\ staging = Staging
    /\ pc = "receive" => Len(files) >= 1 /\ (Len(bufs) = 0 => staging = Staging)
    /\ Loading => /\ Len(bufs) = Len(files) /\ at.file \in 1..Len(files)
                  /\ commands # <<>> /\ commands[Len(commands)].src = 0
    /\ pc = "phdr" => at.phdr <= Len(files[at.file].phdrs)
    /\ Started => regs.a3 \in 1..Len(commands)

\* The segments behind the k-th that hold the entry point, of which the first
\* has given it
Holding(f, k) ==
    {j \in k + 1..Len(f.phdrs) : f.phdrs[j].load /\ HoldsEntry(f.phdrs[j], f.e_entry)}

EntryOf(e, f, k) ==
    \/ Holding(f, k) = {} /\ e = 0
    \/ \E j \in Holding(f, k) : /\ e = EntryIn(f.phdrs[j], f.e_entry)
                                /\ \A h \in Holding(f, k) : j <= h

EntryFound ==
    /\ pc = "phdr" => EntryOf(entry, files[at.file], at.phdr)
    /\ Started => EntryOf(entry, files[1], 0) /\ entry # 0

IInv == LoaderTypeOK /\ Progress /\ EntryFound

LEMMA ZeroAddr == 0 \in Addr /\ AddrMod \in Nat \ {0} /\ NullCommand \in load_command
BY LoaderAssumption DEF Addr, NullCommand, load_command

LEMMA ReturnsStep == ASSUME IInv, Returns PROVE IInv'
<1> DEFINE q == <<>>
<1>1. q \in Seq(Images) /\ q \in Seq(Nat) /\ q \in Seq(load_command) /\ Len(q) = 0 /\ q = <<>>
  BY EmptySeq
<1>2. /\ pc' = "shell" /\ files' = q /\ bufs' = q /\ staging' = Staging
      /\ at' = [file |-> 0, phdr |-> 0] /\ commands' = q /\ entry' = 0
      /\ mem' = [a \in Addr |-> Old] /\ regs' = regs
  BY DEF Returns
<1> HIDE DEF q
<1>3. LoaderTypeOK'
  BY <1>1, <1>2, LoaderAssumption DEF IInv, LoaderTypeOK, MaxFiles
<1> QED BY <1>1, <1>2, <1>3 DEF IInv, Progress, EntryFound, Loading, Started

LEMMA ReceiveSteps == ASSUME IInv, prvShellCommandBoot \/ Receive \/ prvLoadAndBoot PROVE IInv'
<1>1. CASE prvShellCommandBoot
  <2>1. PICK n \in 1..MaxFiles : files' \in [1..n -> Images]
    BY <1>1 DEF prvShellCommandBoot
  <2>2. files' \in Seq(Images) /\ Len(files') = n /\ n \in Nat
    BY <2>1 DEF MaxFiles
  <2>3. /\ pc = "shell" /\ pc' = "receive"
        /\ UNCHANGED <<bufs, staging, at, commands, entry, regs, mem>>
    BY <1>1 DEF prvShellCommandBoot
  <2>4. Len(bufs) = 0
    BY <2>3, EmptySeq DEF IInv, Progress
  <2>5. LoaderTypeOK'
    BY <2>1, <2>2, <2>3, <2>4 DEF IInv, LoaderTypeOK, MaxFiles
  <2> QED BY <2>1, <2>2, <2>3, <2>5 DEF IInv, Progress, EntryFound, Loading, Started
<1>2. CASE Receive
  <2>1. /\ pc = "receive" /\ Len(bufs) + 1 <= Len(files) /\ bufs' = Append(bufs, staging)
        /\ staging' = staging + Rounded(files[Len(bufs) + 1].size) /\ DOMAIN mem' = Addr
        /\ UNCHANGED <<pc, files, at, commands, entry, regs>>
    BY <1>2 DEF Receive
  <2>2. Len(bufs) \in Nat /\ bufs \in Seq(Nat) /\ staging \in Nat /\ files \in Seq(Images) /\ Len(files) \in Nat
    BY DEF IInv, LoaderTypeOK
  <2>3. files[Len(bufs) + 1] \in Images
    BY <2>1, <2>2
  <2>4. Rounded(files[Len(bufs) + 1].size) \in Nat
    BY <2>3, LoaderAssumption, RoundedUp DEF Rounded
  <2>5. bufs' \in Seq(Nat) /\ Len(bufs') = Len(bufs) + 1 /\ staging' \in Nat
    BY <2>1, <2>2, <2>4
  <2>6. LoaderTypeOK'
    BY <2>1, <2>5 DEF IInv, LoaderTypeOK
  <2> QED BY <2>1, <2>6 DEF IInv, Progress, EntryFound, Loading, Started
<1>3. CASE prvLoadAndBoot
  <2>1. /\ pc = "receive" /\ pc' = "elf" /\ Len(bufs) = Len(files)
        /\ at' = [file |-> Len(files), phdr |-> 0] /\ commands' = <<NullCommand>>
        /\ UNCHANGED <<files, bufs, staging, entry, regs, mem>>
    BY <1>3 DEF prvLoadAndBoot
  <2>2. Len(files) \in 1..MaxFiles /\ Len(files) \in Nat
    BY <2>1 DEF IInv, LoaderTypeOK, Progress, MaxFiles
  <2>3. commands' \in Seq(load_command) /\ Len(commands') = 1 /\ commands'[1].src = 0
    BY <2>1, ZeroAddr DEF NullCommand
  <2>4. at' \in [file : 0..MaxFiles, phdr : Nat] /\ at'.file = Len(files)
    BY <2>1, <2>2 DEF MaxFiles
  <2>5. LoaderTypeOK'
    BY <2>1, <2>3, <2>4 DEF IInv, LoaderTypeOK
  <2>6. commands' # <<>>
    BY <2>3, EmptySeq
  <2> QED BY <2>1, <2>2, <2>3, <2>4, <2>5, <2>6 DEF IInv, Progress, EntryFound, Loading, Started
<1> QED BY <1>1, <1>2, <1>3

\* What is known of the file and the header that is looked at
LEMMA Looking ==
    ASSUME IInv, pc \in {"elf", "phdr"}
    PROVE  /\ at \in [file : 0..MaxFiles, phdr : Nat] /\ at.file \in Nat /\ at.phdr \in Nat
           /\ at.file \in 1..Len(files) /\ Len(files) \in Nat /\ Len(files) <= MaxFiles
           /\ files \in Seq(Images) /\ files[at.file] \in Images
           /\ files[at.file].phdrs \in Seq(Elf_Phdr) /\ Len(files[at.file].phdrs) \in Nat
           /\ files[at.file].e_entry \in Addr
           /\ Len(bufs) = Len(files) /\ bufs \in Seq(Nat) /\ bufs[at.file] \in Nat
           /\ commands \in Seq(load_command) /\ Len(commands) \in Nat \ {0}
           /\ commands[Len(commands)].src = 0
<1>1. /\ at \in [file : 0..MaxFiles, phdr : Nat] /\ files \in Seq(Images) /\ Len(files) <= MaxFiles
      /\ bufs \in Seq(Nat) /\ commands \in Seq(load_command)
  BY DEF IInv, LoaderTypeOK
<1>2. /\ Len(bufs) = Len(files) /\ at.file \in 1..Len(files) /\ commands # <<>>
      /\ commands[Len(commands)].src = 0
  BY DEF IInv, Progress, Loading
<1>3. at.file \in Nat /\ at.phdr \in Nat /\ Len(files) \in Nat /\ Len(commands) \in Nat \ {0}
  BY <1>1, <1>2, LenProperties, EmptySeq DEF MaxFiles
<1>4. files[at.file] \in Images /\ bufs[at.file] \in Nat
  BY <1>1, <1>2, ElementOfSeq
<1>5. /\ files[at.file].phdrs \in Seq(Elf_Phdr) /\ Len(files[at.file].phdrs) \in Nat
      /\ files[at.file].e_entry \in Addr
  BY <1>4, LoaderAssumption, LenProperties
<1> QED BY <1>1, <1>2, <1>3, <1>4, <1>5

LEMMA HeaderStep == ASSUME IInv, ElfHeader PROVE IInv'
<1>1. /\ pc = "elf" /\ pc' = "phdr" /\ at' = [at EXCEPT !.phdr = Len(files[at.file].phdrs)] /\ entry' = 0
      /\ UNCHANGED <<files, bufs, staging, commands, regs, mem>>
  BY DEF ElfHeader
<1>2. at' \in [file : 0..MaxFiles, phdr : Nat] /\ at'.file = at.file /\ at'.phdr = Len(files[at.file].phdrs)
  BY <1>1, Looking
<1>3. LoaderTypeOK'
  BY <1>1, <1>2 DEF IInv, LoaderTypeOK
<1>4. Holding(files[at.file], Len(files[at.file].phdrs)) = {}
  <2>1. Len(files[at.file].phdrs) \in Nat
    BY <1>1, Looking
  <2> QED BY <2>1 DEF Holding
<1>5. EntryOf(0, files[at.file], Len(files[at.file].phdrs))
  BY <1>4 DEF EntryOf
<1>6. EntryFound'
  BY <1>1, <1>2, <1>5 DEF EntryFound, Started
<1>7. Progress'
  BY <1>1, <1>2, Looking DEF IInv, Progress, Loading, Started
<1> QED BY <1>3, <1>6, <1>7 DEF IInv

\* The segments from the k-th on that hold the entry point
LEMMA HoldingFrom ==
    ASSUME NEW f, Len(f.phdrs) \in Nat, NEW k \in 1..Len(f.phdrs)
    PROVE  Holding(f, k - 1)
             = IF f.phdrs[k].load /\ HoldsEntry(f.phdrs[k], f.e_entry)
               THEN Holding(f, k) \cup {k} ELSE Holding(f, k)
<1>1. \A j : j \in (k - 1) + 1..Len(f.phdrs) <=> (j \in k + 1..Len(f.phdrs) \/ j = k)
  OBVIOUS
<1> QED BY <1>1, Zenon DEF Holding

\* The step to the next header, whether it is loaded or not
LEMMA NextHeader ==
    ASSUME IInv, pc = "phdr", at.phdr > 0, at' = [at EXCEPT !.phdr = @ - 1],
           UNCHANGED <<pc, files, bufs, staging, regs, mem>>,
           commands' \in Seq(load_command), commands' # <<>>, commands'[Len(commands')].src = 0,
           entry' = IF Phdr.load /\ HoldsEntry(Phdr, files[at.file].e_entry)
                      THEN EntryIn(Phdr, files[at.file].e_entry) ELSE entry
    PROVE  IInv'
<1> DEFINE f == files[at.file]
           k == at.phdr
<1>1. /\ at \in [file : 0..MaxFiles, phdr : Nat] /\ k \in Nat /\ Len(f.phdrs) \in Nat
      /\ k \in 1..Len(f.phdrs) /\ f.phdrs \in Seq(Elf_Phdr) /\ f.e_entry \in Addr
      /\ at.file \in 1..Len(files) /\ Len(bufs) = Len(files)
  BY Looking DEF IInv, Progress
<1>2. at' \in [file : 0..MaxFiles, phdr : Nat] /\ at'.file = at.file /\ at'.phdr = k - 1
  <2>1. at' = [at EXCEPT !.phdr = k - 1] /\ k - 1 \in Nat
    BY <1>1
  <2> HIDE DEF k
  <2> QED BY <1>1, <2>1
<1>3. f.phdrs[k] \in Elf_Phdr /\ Phdr = f.phdrs[k]
  BY <1>1, ElementOfSeq DEF Phdr
<1> HIDE DEF f, k
<1>4. EntryIn(f.phdrs[k], f.e_entry) \in Int
  <2>1. f.phdrs[k].p_paddr \in Addr /\ f.phdrs[k].p_vaddr \in Addr
    BY <1>3 DEF Elf_Phdr
  <2> DEFINE x == f.phdrs[k].p_paddr
             y == f.phdrs[k].p_vaddr
             z == f.e_entry
  <2>2. x \in Int /\ y \in Int /\ z \in Int
    <3>1. Addr \subseteq Int
      BY LoaderAssumption DEF Addr
    <3> QED BY <1>1, <2>1, <3>1, Zenon
  <2>3. EntryIn(f.phdrs[k], f.e_entry) = x + (z - y)
    BY DEF EntryIn
  <2> HIDE DEF x, y, z
  <2> QED BY <2>2, <2>3
<1>5. entry' \in Int
  BY <1>3, <1>4 DEF IInv, LoaderTypeOK, f
<1>6. LoaderTypeOK'
  BY <1>2, <1>5 DEF IInv, LoaderTypeOK
<1>7. Progress'
  BY <1>1, <1>2 DEF IInv, Progress, Loading, Started, f
<1>8. EntryOf(entry, f, k)
  BY DEF IInv, EntryFound, f, k
<1>9. EntryOf(entry', f, k - 1)
  <2>1. CASE f.phdrs[k].load /\ HoldsEntry(f.phdrs[k], f.e_entry)
    <3>1. Holding(f, k - 1) = Holding(f, k) \cup {k}
      BY <1>1, <2>1, HoldingFrom
    <3>2. \A h \in Holding(f, k - 1) : k <= h
      BY <1>1 DEF Holding
    <3>3. entry' = EntryIn(f.phdrs[k], f.e_entry)
      BY <1>3, <2>1 DEF f
    <3> QED BY <3>1, <3>2, <3>3 DEF EntryOf
  <2>2. CASE ~(f.phdrs[k].load /\ HoldsEntry(f.phdrs[k], f.e_entry))
    <3>1. Holding(f, k - 1) = Holding(f, k)
      BY <1>1, <2>2, HoldingFrom
    <3>2. entry' = entry
      BY <1>3, <2>2 DEF f
    <3> QED BY <1>8, <3>1, <3>2, Zenon DEF EntryOf
  <2> QED BY <2>1, <2>2
<1>10. EntryFound'
  BY <1>2, <1>9 DEF EntryFound, Started, f
<1> QED BY <1>6, <1>7, <1>10 DEF IInv

LEMMA CommandIs ==
    ASSUME NEW p \in Elf_Phdr, NEW buf \in Nat
    PROVE  Command(p, buf) \in load_command
<1>1. /\ p.p_offset \in Addr /\ p.p_paddr \in Addr /\ p.p_filesz \in Addr /\ p.p_memsz \in Addr
  BY DEF Elf_Phdr
<1> DEFINE x == p.p_memsz - p.p_filesz
<1>2. x \in Int /\ buf + p.p_offset \in Nat /\ AddrMod \in Nat \ {0}
  BY <1>1, LoaderAssumption DEF Addr
<1>3. x % AddrMod \in Addr
  <2> HIDE DEF x
  <2> QED BY <1>2, Division DEF Addr
<1> QED BY <1>1, <1>2, <1>3 DEF Command, load_command

LEMMA HeaderSteps == ASSUME IInv, SkipHeader \/ AddCommand \/ NextFile \/ CopyTrampoline PROVE IInv'
<1>1. CASE SkipHeader
  <2>1. /\ pc = "phdr" /\ at.phdr > 0 /\ ~Phdr.load /\ at' = [at EXCEPT !.phdr = @ - 1]
        /\ UNCHANGED <<pc, files, bufs, staging, commands, entry, regs, mem>>
    BY <1>1 DEF SkipHeader
  <2>2. commands \in Seq(load_command) /\ commands # <<>> /\ commands[Len(commands)].src = 0
    BY <2>1, Looking, EmptySeq
  <2> QED BY <2>1, <2>2, NextHeader
<1>2. CASE AddCommand
  <2>1. /\ pc = "phdr" /\ at.phdr > 0 /\ Phdr.load /\ at' = [at EXCEPT !.phdr = @ - 1]
        /\ commands' = <<Command(Phdr, bufs[at.file])>> \o commands
        /\ entry' = IF HoldsEntry(Phdr, files[at.file].e_entry)
                      THEN EntryIn(Phdr, files[at.file].e_entry) ELSE entry
        /\ UNCHANGED <<pc, files, bufs, staging, regs, mem>>
    BY <1>2 DEF AddCommand
  <2> DEFINE c == Command(Phdr, bufs[at.file])
             one == <<c>>
  <2>2. c \in load_command
    <3>1. Phdr \in Elf_Phdr /\ bufs[at.file] \in Nat
      <4>1. at.phdr \in 1..Len(files[at.file].phdrs)
        BY <2>1, Looking DEF IInv, Progress
      <4> QED BY <2>1, <4>1, Looking, ElementOfSeq DEF Phdr
    <3> QED BY <3>1, CommandIs
  <2>3. /\ one \in Seq(load_command) /\ Len(one) = 1 /\ commands \in Seq(load_command)
        /\ Len(commands) \in Nat \ {0} /\ commands[Len(commands)].src = 0
    BY <2>1, <2>2, Looking
  <2>4. commands' = one \o commands
    BY <2>1
  <2> HIDE DEF c
  <2>5. /\ commands' \in Seq(load_command) /\ Len(commands') = 1 + Len(commands)
        /\ commands'[Len(commands')] = commands[Len(commands)]
    <3> DEFINE n == 1 + Len(commands)
    <3>1. /\ one \o commands \in Seq(load_command) /\ Len(one \o commands) = n
          /\ \A k \in 1..n : k # 1 => (one \o commands)[k] = commands[k - 1]
      BY <2>2, <2>3, Prepended
    <3>2. n \in 1..n /\ n # 1 /\ n - 1 = Len(commands)
      BY <2>3
    <3> HIDE DEF n, one
    <3>3. Len(commands') = n /\ commands'[n] = commands[n - 1] /\ commands' \in Seq(load_command)
      BY <2>4, <3>1, <3>2
    <3> QED BY <3>2, <3>3 DEF n
  <2> HIDE DEF one
  <2>6. commands' # <<>>
    BY <2>3, <2>5, EmptySeq
  <2> QED BY <2>1, <2>3, <2>5, <2>6, NextHeader
<1>3. CASE NextFile
  <2>1. /\ pc = "phdr" /\ at.file > 1 /\ pc' = "elf" /\ at' = [at EXCEPT !.file = @ - 1]
        /\ UNCHANGED <<files, bufs, staging, commands, entry, regs, mem>>
    BY <1>3 DEF NextFile
  <2>2. at' \in [file : 0..MaxFiles, phdr : Nat] /\ at'.file \in 1..Len(files)
    BY <2>1, Looking DEF MaxFiles
  <2>3. LoaderTypeOK'
    BY <2>1, <2>2 DEF IInv, LoaderTypeOK
  <2> QED BY <2>1, <2>2, <2>3 DEF IInv, Progress, EntryFound, Loading, Started
<1>4. CASE CopyTrampoline
  <2>1. /\ pc = "phdr" /\ at = [file |-> 1, phdr |-> 0] /\ entry # 0 /\ pc' = "next"
        /\ DOMAIN mem' = Addr /\ regs' = [regs EXCEPT !.a3 = 1]
        /\ UNCHANGED <<files, bufs, staging, at, commands, entry>>
    BY <1>4 DEF CopyTrampoline
  <2>2. regs' \in Registers /\ regs'.a3 = 1
    BY <2>1 DEF IInv, LoaderTypeOK, Registers
  <2>3. at.file = 1 /\ at.phdr = 0 /\ Len(commands) \in Nat \ {0}
    BY <2>1, Looking
  <2>4. LoaderTypeOK'
    BY <2>1, <2>2 DEF IInv, LoaderTypeOK
  <2>5. EntryOf(entry, files[1], 0)
    BY <2>1, <2>3 DEF IInv, EntryFound
  <2> QED BY <2>1, <2>2, <2>3, <2>4, <2>5 DEF IInv, Progress, EntryFound, Loading, Started
<1> QED BY <1>1, <1>2, <1>3, <1>4

\* Every step of the trampoline
LEMMA TrampolineStep ==
    ASSUME IInv, Started, Started', UNCHANGED <<files, bufs, staging, at, commands, entry>>,
           DOMAIN mem' = Addr, regs' \in Registers, regs'.a3 \in 1..Len(commands)
    PROVE  IInv'
<1>1. LoaderTypeOK'
  BY DEF IInv, LoaderTypeOK, Started
<1> QED BY <1>1 DEF IInv, Progress, EntryFound, Loading, Started

LEMMA TrampolineSteps ==
    ASSUME IInv,
           \/ LoadCommand \/ CopyByte \/ CopyBlock \/ CopyDone
           \/ ZeroByte \/ ZeroBlock \/ ZeroDone \/ Jump
    PROVE  IInv'
<1>1. /\ Started /\ Started' /\ UNCHANGED <<files, bufs, staging, at, commands, entry>>
  BY DEF LoadCommand, CopyByte, CopyBlock, CopyDone, ZeroByte, ZeroBlock, ZeroDone, Jump,
         Copies, Zeroes, Started
<1>2. /\ regs \in Registers /\ regs.a3 \in 1..Len(commands) /\ DOMAIN mem = Addr
      /\ commands \in Seq(load_command) /\ Len(commands) \in Nat
      /\ commands[Len(commands)].src = 0
  BY <1>1, LenProperties DEF IInv, LoaderTypeOK, Progress, Loading
<1>3. CASE LoadCommand
  <2> DEFINE c == commands[regs.a3]
  <2>1. /\ c.src # 0 /\ mem' = mem
        /\ regs' = [a3 |-> regs.a3 + 1, src |-> c.src, dst |-> c.dst,
                    copysz |-> c.copysz, zerosz |-> c.zerosz]
    BY <1>3 DEF LoadCommand
  <2>2. c \in load_command
    BY <1>2, ElementOfSeq
  <2>3. regs.a3 # Len(commands)
    BY <1>2, <2>1
  <2> HIDE DEF c
  <2>4. regs' \in Registers /\ regs'.a3 = regs.a3 + 1
    <3>1. c.src \in Nat /\ c.dst \in Nat /\ c.copysz \in Addr /\ c.zerosz \in Addr
      BY <2>2, LoaderAssumption DEF load_command, Addr
    <3>2. regs.a3 + 1 \in Nat
      BY <1>2 DEF Registers
    <3> QED BY <2>1, <3>1, <3>2 DEF Registers
  <2> QED BY <1>1, <1>2, <2>1, <2>3, <2>4, TrampolineStep
<1>4. CASE CopyDone \/ ZeroDone \/ Jump
  <2>1. UNCHANGED <<regs, mem>>
    BY <1>4 DEF CopyDone, ZeroDone, Jump
  <2> QED BY <1>1, <1>2, <2>1, TrampolineStep
<1>5. CASE CopyByte \/ CopyBlock
  <2>1. PICK k \in Nat \ {0} : Copies(k) /\ k <= regs.copysz
    <3>1. regs.copysz \in Nat
      BY <1>2, LoaderAssumption DEF Registers, Addr
    <3> QED BY <1>5, <3>1, LoaderAssumption DEF CopyByte, CopyBlock
  <2>2. /\ DOMAIN mem' = Addr
        /\ regs' = [regs EXCEPT !.src = @ + k, !.dst = @ + k, !.copysz = @ - k]
    BY <2>1 DEF Copies
  <2>3. regs.src + k \in Nat /\ regs.dst + k \in Nat /\ regs.copysz - k \in Addr
    BY <1>2, <2>1, LoaderAssumption DEF Registers, Addr
  <2>4. regs' \in Registers /\ regs'.a3 = regs.a3
    BY <1>2, <2>2, <2>3 DEF Registers
  <2> QED BY <1>1, <1>2, <2>2, <2>4, TrampolineStep
<1>6. CASE ZeroByte \/ ZeroBlock
  <2>1. PICK k \in Nat \ {0} : Zeroes(k) /\ k <= regs.zerosz
    <3>1. regs.zerosz \in Nat
      BY <1>2, LoaderAssumption DEF Registers, Addr
    <3> QED BY <1>6, <3>1, LoaderAssumption DEF ZeroByte, ZeroBlock
  <2>2. DOMAIN mem' = Addr /\ regs' = [regs EXCEPT !.dst = @ + k, !.zerosz = @ - k]
    BY <2>1 DEF Zeroes
  <2>3. regs.dst + k \in Nat /\ regs.zerosz - k \in Addr
    BY <1>2, <2>1, LoaderAssumption DEF Registers, Addr
  <2>4. regs' \in Registers /\ regs'.a3 = regs.a3
    BY <1>2, <2>2, <2>3 DEF Registers
  <2> QED BY <1>1, <1>2, <2>2, <2>4, TrampolineStep
<1> QED BY <1>3, <1>4, <1>5, <1>6

LEMMA Step == ASSUME IInv, [Next]_vars PROVE IInv'
<1>1. CASE ReceiveFails \/ NotElf \/ SegmentOut \/ NoEntry
  <2>1. Returns
    BY <1>1 DEF ReceiveFails, NotElf, SegmentOut, NoEntry
  <2> QED BY <2>1, ReturnsStep
<1>2. CASE UNCHANGED vars
  BY <1>2 DEF vars, IInv, LoaderTypeOK, Progress, EntryFound, Loading, Started
<1>3. CASE Clobbered
  BY <1>3 DEF Clobbered, IInv, LoaderTypeOK, Progress, EntryFound, Loading, Started
<1> QED BY <1>1, <1>2, <1>3, ReceiveSteps, HeaderStep, HeaderSteps, TrampolineSteps DEF Next, Boot

LEMMA Start == ASSUME Init PROVE IInv
<1> DEFINE q == <<>>
<1>1. q \in Seq(Images) /\ q \in Seq(Nat) /\ q \in Seq(load_command) /\ Len(q) = 0 /\ q = <<>>
  BY EmptySeq
<1>2. /\ pc = "shell" /\ files = q /\ bufs = q /\ staging = Staging
      /\ at = [file |-> 0, phdr |-> 0] /\ commands = q /\ entry = 0
      /\ mem = [a \in Addr |-> Old]
      /\ regs = [a3 |-> 1, src |-> 0, dst |-> 0, copysz |-> 0, zerosz |-> 0]
  BY DEF Init
<1> HIDE DEF q
<1>3. LoaderTypeOK
  BY <1>1, <1>2, ZeroAddr, LoaderAssumption DEF LoaderTypeOK, MaxFiles, Registers
<1> QED BY <1>1, <1>2, <1>3 DEF IInv, Progress, EntryFound, Loading, Started

\* The trampoline jumps to the physical address of the first file's entry
\* point, in the first of its segments that holds it, whatever files, headers
\* and segments there are: prvGetLoadCommands walks the headers backwards and
\* keeps the last address it finds.
THEOREM EntersFirst == Spec => []Enters
<1>1. Init => IInv
  BY Start
<1>2. IInv /\ [Next]_vars => IInv'
  BY Step
<1>3. IInv => Enters
  <2> SUFFICES ASSUME IInv, pc = "image" PROVE Enters
    BY DEF Enters
  <2> DEFINE e == files[1].e_entry
             S == {s \in Segments : s[1] = 1 /\ HoldsEntry(Seg(s), e)}
  <2>1. 1 \in 1..Len(files) /\ EntryOf(entry, files[1], 0) /\ entry # 0
    <3>1. at.file \in 1..Len(files) /\ Len(files) \in Nat
      BY LenProperties DEF IInv, LoaderTypeOK, Progress, Loading, Started
    <3> QED BY <3>1 DEF IInv, EntryFound, Started
  <2>2. PICK j \in Holding(files[1], 0) : /\ entry = EntryIn(files[1].phdrs[j], e)
                                          /\ \A h \in Holding(files[1], 0) : j <= h
    BY <2>1 DEF EntryOf
  <2>3. \A s : s \in S <=> \E h \in Holding(files[1], 0) : s = <<1, h>>
    BY <2>1 DEF Segments, Seg, Holding
  <2>4. <<1, j>> \in S /\ entry = Seg(<<1, j>>).p_paddr + (e - Seg(<<1, j>>).p_vaddr)
    BY <2>2, <2>3 DEF Seg, EntryIn
  <2>5. \A t \in S \ {<<1, j>>} : Before(<<1, j>>, t)
    <3> SUFFICES ASSUME NEW t \in S, t # <<1, j>> PROVE Before(<<1, j>>, t)
      OBVIOUS
    <3>1. PICK h \in Holding(files[1], 0) : t = <<1, h>>
      BY <2>3
    <3>2. j <= h /\ j # h /\ j \in Int /\ h \in Int
      BY <2>2, <3>1 DEF Holding
    <3> QED BY <3>1, <3>2 DEF Before
  <2> HIDE DEF S
  <2>6. \E s \in S : /\ entry = Seg(s).p_paddr + (e - Seg(s).p_vaddr)
                     /\ \A t \in S \ {s} : Before(s, t)
    BY <2>4, <2>5
  <2> QED BY <2>6 DEF Enters, S
<1> QED BY <1>1, <1>2, <1>3, PTL DEF Spec

-----------------------------------------------------------------------------
(***************************************************************************)
(* Where the files are staged.                                             *)
(***************************************************************************)
\* A file fits above STAGING_ADDR, which the code does not look at
FilesFit == \A f \in Images : Staging + Rounded(f.size) < AddrMod

Aligned(a) == a \in Addr /\ a % Align = Staging % Align

Placed ==
    /\ \A k \in 1..Len(bufs) : Aligned(bufs[k])
    /\ Len(bufs) < MaxFiles => Aligned(staging)

LEMMA PlacedStep == ASSUME FilesFit, IInv, Placed, [Next]_vars PROVE Placed'
<1>1. CASE Receive
  <2> DEFINE f == files[Len(bufs) + 1]
             r == Rounded(f.size)
  <2>1. /\ pc = "receive" /\ Len(bufs) + 1 <= Len(files)
        /\ bufs' = Append(bufs, staging) /\ staging' = staging + r
    BY <1>1 DEF Receive
  <2>2. bufs \in Seq(Nat) /\ Len(bufs) \in Nat /\ staging \in Nat /\ files \in Seq(Images)
        /\ Len(files) \in Nat /\ Len(files) <= MaxFiles
    BY LenProperties DEF IInv, LoaderTypeOK
  <2>3. /\ Len(bufs') = Len(bufs) + 1 /\ bufs'[Len(bufs) + 1] = staging
        /\ \A k \in 1..Len(bufs) : bufs'[k] = bufs[k]
    BY <2>1, <2>2
  <2>4. Aligned(staging)
    BY <2>1, <2>2 DEF Placed, MaxFiles
  <2>5. ASSUME NEW k \in 1..Len(bufs') PROVE Aligned(bufs'[k])
    <3>1. k \in 1..Len(bufs) \/ k = Len(bufs) + 1
      BY <2>2, <2>3
    <3>2. CASE k \in 1..Len(bufs)
      BY <2>3, <3>2 DEF Placed
    <3>3. CASE k = Len(bufs) + 1
      BY <2>3, <2>4, <3>3
    <3> QED BY <3>1, <3>2, <3>3
  <2>6. ASSUME Len(bufs') < MaxFiles PROVE Aligned(staging')
    <3>1. Len(bufs) = 0
      BY <2>2, <2>3, <2>6 DEF MaxFiles
    <3>2. staging = Staging
      BY <2>1, <3>1 DEF IInv, Progress
    <3>3. f \in Images /\ f.size \in Nat
      BY <2>1, <2>2, LoaderAssumption
    <3> HIDE DEF f
    <3>4. r \in Nat /\ r % Align = 0
      <4> DEFINE size == f.size
      <4>1. size \in Nat /\ Align \in Nat \ {0}
        BY <3>3, LoaderAssumption
      <4> HIDE DEF size
      <4>2. (size + ((-size) % Align)) % Align = 0 /\ (-size) % Align \in Nat
        BY <4>1, RoundedUp
      <4> QED BY <4>1, <4>2 DEF Rounded, size
    <3>5. Staging + r < AddrMod
      BY <3>3 DEF FilesFit
    <3> HIDE DEF r
    <3>6. (Staging + r) % Align = Staging % Align
      <4>1. Staging \in Int /\ r \in Int /\ Align \in Nat \ {0} /\ r % Align = 0
        BY <3>4, LoaderAssumption
      <4> QED BY <4>1, SameRemainder, Zenon
    <3> QED BY <2>1, <3>2, <3>4, <3>5, <3>6, LoaderAssumption DEF Aligned, Addr
  <2> QED BY <2>5, <2>6 DEF Placed
<1>2. CASE Returns
  <2>1. bufs' = <<>> /\ staging' = Staging /\ Len(bufs') = 0
    BY <1>2, EmptySeq DEF Returns
  <2>2. Staging \in Addr
    BY LoaderAssumption DEF Addr
  <2> QED BY <2>1, <2>2 DEF Placed, Aligned
<1>3. CASE UNCHANGED <<bufs, staging>>
  BY <1>3 DEF Placed
<1>4. Receive \/ Returns \/ UNCHANGED <<bufs, staging>>
  BY DEF Next, Boot, vars, prvShellCommandBoot, ReceiveFails, prvLoadAndBoot, NotElf, ElfHeader,
         SkipHeader, SegmentOut, AddCommand, NextFile, NoEntry, CopyTrampoline, LoadCommand,
         CopyByte, CopyBlock, CopyDone, ZeroByte, ZeroBlock, ZeroDone, Jump, Copies, Zeroes,
         Clobbered
<1> QED BY <1>1, <1>2, <1>3, <1>4

\* The boot command keeps its types, no size it counts down becomes negative,
\* and every file is staged at an aligned address, if the files fit above
\* STAGING_ADDR.
THEOREM TypeCorrect == FilesFit => (Spec => []TypeOK)
<1> SUFFICES ASSUME FilesFit PROVE Spec => []TypeOK
  OBVIOUS
<1>1. Init => IInv /\ Placed
  <2> SUFFICES ASSUME Init PROVE Placed
    BY Start
  <2>1. bufs = <<>> /\ staging = Staging /\ Len(bufs) = 0
    BY EmptySeq DEF Init
  <2> QED BY <2>1, LoaderAssumption DEF Placed, Aligned, Addr
<1>2. IInv /\ Placed /\ [Next]_vars => (IInv /\ Placed)'
  BY Step, PlacedStep
<1>3. IInv /\ Placed => TypeOK
  <2> SUFFICES ASSUME IInv, Placed PROVE TypeOK
    OBVIOUS
  <2>1. /\ Len(bufs) \in Nat /\ Len(files) \in Nat /\ DOMAIN bufs = 1..Len(bufs)
        /\ Len(bufs) <= Len(files) /\ Len(files) <= MaxFiles
    BY LenProperties DEF IInv, LoaderTypeOK
  <2>2. regs.copysz \in Addr /\ regs.zerosz \in Addr
    BY DEF IInv, LoaderTypeOK, Registers
  <2>3. at.file \in 0..MaxFiles /\ at.phdr \in Nat
    BY DEF IInv, LoaderTypeOK
  <2>4. \A k \in DOMAIN bufs : bufs[k] \in Addr /\ bufs[k] % Align = Staging % Align
    BY <2>1 DEF Placed, Aligned
  <2>5. Len(bufs) <= MaxFiles
    BY <2>1 DEF MaxFiles
  <2> QED BY <2>2, <2>3, <2>4, <2>5 DEF TypeOK, IInv, LoaderTypeOK
<1> QED BY <1>1, <1>2, <1>3, PTL DEF Spec

-----------------------------------------------------------------------------
(***************************************************************************)
(* The scratch area below STAGING_ADDR.                                    *)
(***************************************************************************)
Behind == IF at.file = 1 THEN MaxPhnum ELSE 0

\* The list has room for the headers that are left
Counted ==
    /\ pc = "elf" => Len(commands) <= 1 + Behind
    /\ pc = "phdr" => Len(commands) <= 1 + Behind + Len(files[at.file].phdrs) - at.phdr
    /\ Started => Len(commands) <= 2 * MaxPhnum + 1

\* What is left to write ends where the command in hand ends
WritesWithin ==
    pc \in {"copy", "zero"} =>
        LET c == commands[regs.a3 - 1] IN
        /\ regs.a3 - 1 \in 1..Len(commands)
        /\ regs.dst + regs.copysz + regs.zerosz <= c.dst + c.copysz + c.zerosz

\* The trampoline and its whole list are in memory
InMemory ==
    /\ \A a \in TrampAt(commands)..ListAt(commands) - 1 : mem[a] = Code
    /\ \A a \in ListAt(commands)..Staging - 1 : mem[a] = Listed

Kept == InTrampoline => InMemory \/ \E k \in 1..regs.a3 - 1 : Reaches(commands[k])

Scratch == Counted /\ WritesWithin /\ Kept

LEMMA ListIs ==
    ASSUME IInv, Len(commands) <= 2 * MaxPhnum + 1
    PROVE  /\ ListAt(commands) \in Int /\ TrampAt(commands) \in Int /\ 0 <= TrampAt(commands)
           /\ TrampAt(commands) + TrampSize = ListAt(commands) /\ ListAt(commands) <= Staging
           /\ ListAt(commands) - 1 \in Int /\ Staging < AddrMod
<1>1. Len(commands) \in Nat /\ Len(commands) <= 2 * MaxPhnum + 1 /\ 2 * MaxPhnum + 1 \in Nat
  BY LenProperties, RoomAssumption DEF IInv, LoaderTypeOK
<1> DEFINE x == CmdSize * Len(commands)
           y == CmdSize * (2 * MaxPhnum + 1)
<1>2. x <= y /\ x \in Nat /\ y \in Nat
  <2> DEFINE a == Len(commands)
             b == 2 * MaxPhnum + 1
  <2>1. a \in Nat /\ b \in Nat /\ a <= b /\ CmdSize \in Nat
    BY <1>1, LoaderAssumption
  <2> HIDE DEF a, b
  <2>2. CmdSize * a <= CmdSize * b /\ CmdSize * a \in Nat /\ CmdSize * b \in Nat
    BY <2>1, Product
  <2> QED BY <2>2 DEF a, b
<1>3. ListAt(commands) = Staging - x /\ TrampAt(commands) = Staging - x - TrampSize
      /\ Base + TrampSize + y <= Staging
  BY RoomAssumption DEF ListAt, TrampAt, MaxFiles
<1> HIDE DEF x, y
<1> QED BY <1>2, <1>3, LoaderAssumption

LEMMA Headers ==
    ASSUME IInv, pc \in {"elf", "phdr"}
    PROVE  /\ at.file \in 1..2 /\ at.phdr \in Nat
           /\ Len(files[at.file].phdrs) \in Nat /\ Len(files[at.file].phdrs) <= MaxPhnum
           /\ Len(commands) \in Nat /\ Behind \in Nat
<1>1. /\ at.file \in 1..2 /\ at.phdr \in Nat /\ Len(files[at.file].phdrs) \in Nat
      /\ files[at.file] \in Images /\ Len(commands) \in Nat
  BY Looking DEF MaxFiles
<1>2. Len(files[at.file].phdrs) <= MaxPhnum
  BY <1>1, RoomAssumption
<1> QED BY <1>1, <1>2, RoomAssumption DEF Behind

LEMMA CountedStep ==
    ASSUME IInv, Counted, [Next]_vars
    PROVE  Counted'
<1>0. MaxPhnum \in Nat
  BY RoomAssumption
<1>1. CASE pc' \in {"shell", "receive"}
  BY <1>1 DEF Counted, Started
<1>2. CASE prvLoadAndBoot
  <2>1. pc' = "elf" /\ Len(commands') = 1
    BY <1>2 DEF prvLoadAndBoot
  <2>2. Behind' \in {0, MaxPhnum}
    BY DEF Behind
  <2>3. 1 <= 1 + Behind'
    BY <1>0, <2>2 DEF Behind
  <2> QED BY <2>1, <2>3 DEF Counted, Started
<1>3. CASE ElfHeader
  <2>1. /\ pc = "elf" /\ pc' = "phdr" /\ files' = files /\ commands' = commands
        /\ at' = [at EXCEPT !.phdr = Len(files[at.file].phdrs)]
    BY <1>3 DEF ElfHeader
  <2>2. at'.file = at.file /\ at'.phdr = Len(files[at.file].phdrs)
    BY <2>1, Looking
  <2>3. Behind' = Behind /\ Len(commands) <= 1 + Behind
    BY <2>1, <2>2 DEF Behind, Counted
  <2> DEFINE n == Len(files[at.file].phdrs)
             b == Behind
             l == Len(commands)
  <2>4. n \in Nat /\ b \in Nat /\ l \in Nat /\ l <= 1 + b
    BY <2>1, <2>3, Headers
  <2>5. l <= 1 + b + n - n
    <3> HIDE DEF n, b, l
    <3> QED BY <2>4
  <2> QED BY <2>1, <2>2, <2>3, <2>5 DEF Counted, Started
<1>4. CASE SkipHeader \/ AddCommand
  <2>1. /\ pc = "phdr" /\ pc' = "phdr" /\ files' = files /\ at.phdr > 0
        /\ at' = [at EXCEPT !.phdr = @ - 1]
    BY <1>4 DEF SkipHeader, AddCommand
  <2>2. at'.file = at.file /\ at'.phdr = at.phdr - 1
    BY <2>1, Looking
  <2>3. Len(commands') \in {Len(commands), Len(commands) + 1}
    <3>1. CASE SkipHeader
      BY <3>1 DEF SkipHeader
    <3>2. CASE AddCommand
      <4> DEFINE c == Command(Phdr, bufs[at.file])
      <4>1. commands' = <<c>> \o commands
        BY <3>2 DEF AddCommand
      <4>2. commands \in Seq(load_command) /\ Len(commands) \in Nat
        BY <2>1, Looking
      <4> HIDE DEF c
      <4>3. c \in {c} \cup load_command /\ commands \in Seq({c} \cup load_command)
        BY <4>2
      <4>4. Len(<<c>> \o commands) = 1 + Len(commands)
        BY <4>3, Prepended
      <4> QED BY <4>1, <4>2, <4>4
    <3> QED BY <1>4, <3>1, <3>2
  <2> DEFINE n == Len(files[at.file].phdrs)
             b == Behind
             l == Len(commands)
             k == at.phdr
  <2>4. n \in Nat /\ b \in Nat /\ l \in Nat /\ k \in Nat /\ l <= 1 + b + n - k
    BY <2>1, Headers DEF Counted
  <2>5. Behind' = b /\ Len(files[at.file].phdrs)' = n
    BY <2>1, <2>2 DEF Behind
  <2>6. Len(commands') <= 1 + b + n - (k - 1)
    <3>1. Len(commands') \in {l, l + 1}
      BY <2>3
    <3> HIDE DEF n, b, l, k
    <3> QED BY <2>4, <3>1
  <2> HIDE DEF n, b, l
  <2> QED BY <2>1, <2>2, <2>5, <2>6 DEF Counted, Started
<1>5. CASE NextFile
  <2>1. /\ pc = "phdr" /\ pc' = "elf" /\ at.phdr = 0 /\ at.file > 1 /\ commands' = commands
        /\ at' = [at EXCEPT !.file = @ - 1]
    BY <1>5 DEF NextFile
  <2>2. at.file = 2 /\ at'.file = 1
    <3>1. at.file \in 1..2
      BY <2>1, Headers
    <3>2. at.file = 2
      BY <2>1, <3>1
    <3> QED BY <2>1, <3>2, Looking
  <2>3. Behind = 0 /\ Behind' = MaxPhnum
    BY <2>2 DEF Behind
  <2> DEFINE n == Len(files[at.file].phdrs)
             l == Len(commands)
  <2>4. n \in Nat /\ l \in Nat /\ n <= MaxPhnum /\ l <= 1 + 0 + n - 0
    BY <2>1, <2>3, Headers DEF Counted
  <2>5. l <= 1 + MaxPhnum
    <3> HIDE DEF n, l
    <3> QED BY <1>0, <2>4
  <2> QED BY <2>1, <2>3, <2>5 DEF Counted, Started
<1>6. CASE CopyTrampoline
  <2>1. /\ pc = "phdr" /\ pc' = "next" /\ at = [file |-> 1, phdr |-> 0] /\ commands' = commands
    BY <1>6 DEF CopyTrampoline
  <2> DEFINE n == Len(files[at.file].phdrs)
             l == Len(commands)
  <2>2. n \in Nat /\ l \in Nat /\ n <= MaxPhnum /\ l <= 1 + MaxPhnum + n - 0
    BY <2>1, Headers DEF Counted, Behind
  <2>3. l <= 2 * MaxPhnum + 1
    <3> HIDE DEF n, l
    <3> QED BY <1>0, <2>2
  <2> QED BY <2>1, <2>3 DEF Counted, Started
<1>7. CASE Started /\ Started' /\ commands' = commands
  BY <1>7 DEF Counted, Started
<1>8. CASE UNCHANGED vars
  BY <1>8 DEF Counted, Started, vars, Behind
<1>9. CASE ~(Started /\ Started' /\ commands' = commands)
  <2>1. ~(\/ LoadCommand \/ CopyByte \/ CopyBlock \/ CopyDone
          \/ ZeroByte \/ ZeroBlock \/ ZeroDone \/ Jump)
    BY <1>9 DEF LoadCommand, CopyByte, CopyBlock, CopyDone, ZeroByte, ZeroBlock, ZeroDone, Jump,
                Copies, Zeroes, Started
  <2>2. CASE ReceiveFails \/ NotElf \/ SegmentOut \/ NoEntry \/ prvShellCommandBoot \/ Receive
    <3>1. pc' \in {"shell", "receive"}
      BY <2>2 DEF ReceiveFails, NotElf, SegmentOut, NoEntry, prvShellCommandBoot, Receive, Returns
    <3> QED BY <1>1, <3>1
  <2>3. CASE Clobbered
    BY <2>3 DEF Clobbered, Counted, Started
  <2> QED BY <1>2, <1>3, <1>4, <1>5, <1>6, <1>8, <2>1, <2>2, <2>3 DEF Next, Boot
<1> QED BY <1>7, <1>9

\* Copying or zeroing k bytes of what is left to write, which ends at low,
\* writes below low and leaves what ends there
LEMMA WritesBelow ==
    ASSUME NEW low \in Int, NEW k \in Nat, NEW d \in Nat, NEW x \in Nat, NEW z \in Nat,
           d + x + z <= low, k <= x
    PROVE  /\ d + k + (x - k) + z <= low
           /\ \A a \in Int : a >= low => a \notin d..d + k - 1
OBVIOUS

\* A step of the trampoline writes nothing beyond the end of what is left
LEMMA WritesStep ==
    ASSUME IInv, WritesWithin, InTrampoline, [Next]_vars, ~Clobbered, NEW low \in Int,
           pc \in {"copy", "zero"} => regs.dst + regs.copysz + regs.zerosz <= low
    PROVE  /\ WritesWithin'
           /\ \A a \in Addr : a >= low => mem'[a] = mem[a]
           /\ commands' = commands
           /\ pc' = "next" \/ pc = "next" \/ regs'.a3 = regs.a3
           /\ regs'.a3 \in {regs.a3, regs.a3 + 1}
<1>1. Addr \subseteq Int /\ Addr \subseteq Nat
  BY LoaderAssumption DEF Addr
<1>2. regs \in Registers /\ commands \in Seq(load_command) /\ regs.a3 \in 1..Len(commands)
      /\ Len(commands) \in Nat
  BY LenProperties DEF IInv, LoaderTypeOK, Progress, Started, InTrampoline
<1> DEFINE d == regs.dst
           x == regs.copysz
           z == regs.zerosz
           cur == commands[regs.a3 - 1]
           end == cur.dst + cur.copysz + cur.zerosz
<1>3. d \in Nat /\ x \in Nat /\ z \in Nat
  BY <1>1, <1>2 DEF Registers
<1>4. CASE LoadCommand
  <2> DEFINE c == commands[regs.a3]
  <2>1. /\ mem' = mem /\ commands' = commands /\ pc = "next"
        /\ regs' = [a3 |-> regs.a3 + 1, src |-> c.src, dst |-> c.dst,
                    copysz |-> c.copysz, zerosz |-> c.zerosz]
    BY <1>4 DEF LoadCommand
  <2>2. c \in load_command
    BY <1>2, ElementOfSeq
  <2>3. (regs.a3 + 1) - 1 = regs.a3 /\ c.dst + c.copysz + c.zerosz \in Int
    <3>1. c.dst \in Nat /\ c.copysz \in Nat /\ c.zerosz \in Nat
      BY <1>1, <2>2 DEF load_command
    <3> HIDE DEF c
    <3> QED BY <1>2, <3>1
  <2> HIDE DEF c
  <2>4. regs'.a3 = regs.a3 + 1 /\ regs'.dst = c.dst /\ regs'.copysz = c.copysz /\ regs'.zerosz = c.zerosz
    BY <2>1
  <2>5. commands'[regs'.a3 - 1] = c /\ regs'.a3 - 1 = regs.a3
    BY <2>1, <2>3, <2>4 DEF c
  <2>6. WritesWithin'
    BY <1>2, <2>1, <2>3, <2>4, <2>5 DEF WritesWithin
  <2> QED BY <2>1, <2>4, <2>6
<1>5. ASSUME pc \in {"copy", "zero"}
      PROVE  regs.a3 - 1 \in 1..Len(commands) /\ d + x + z <= end /\ end \in Int /\ d + x + z <= low
  <2>1. regs.a3 - 1 \in 1..Len(commands) /\ d + x + z <= end
    BY <1>5 DEF WritesWithin
  <2>2. cur \in load_command
    BY <1>2, <2>1, ElementOfSeq
  <2>3. cur.dst \in Nat /\ cur.copysz \in Nat /\ cur.zerosz \in Nat
    BY <1>1, <2>2 DEF load_command
  <2> HIDE DEF cur
  <2> QED BY <1>5, <2>1, <2>3
<1>6. CASE CopyByte \/ CopyBlock
  <2>1. PICK k \in Nat \ {0} : Copies(k) /\ k <= x
    BY <1>3, <1>6, LoaderAssumption DEF CopyByte, CopyBlock
  <2>2. /\ pc' = pc /\ commands' = commands /\ pc = "copy"
        /\ regs' = [regs EXCEPT !.src = @ + k, !.dst = @ + k, !.copysz = @ - k]
        /\ mem' = [a \in Addr |-> IF a \in d..d + k - 1 THEN mem[regs.src + (a - d)] ELSE mem[a]]
    BY <1>6, <2>1 DEF Copies, CopyByte, CopyBlock
  <2>3. regs'.dst = d + k /\ regs'.copysz = x - k /\ regs'.zerosz = z /\ regs'.a3 = regs.a3
    BY <1>2, <2>2 DEF Registers
  <2>4. d + x + z <= end /\ end \in Int /\ d + x + z <= low /\ regs.a3 - 1 \in 1..Len(commands)
    BY <1>5, <2>2
  <2>5. commands'[regs'.a3 - 1] = cur
    BY <2>2, <2>3
  <2>6. WritesWithin'
    <3>1. (d + k) + (x - k) + z <= end
      <4> HIDE DEF d, x, z, end
      <4> QED BY <1>3, <2>1, <2>4
    <3> HIDE DEF d, x, z
    <3> QED BY <2>2, <2>3, <2>4, <2>5, <3>1 DEF WritesWithin, end
  <2>7. \A a \in Int : a >= low => a \notin d..d + k - 1
    <3> HIDE DEF d, x, z, end
    <3> QED BY <1>3, <2>1, <2>4, WritesBelow
  <2> HIDE DEF d, x, z
  <2>8. \A a \in Addr : a >= low => mem'[a] = mem[a]
    BY <1>1, <2>2, <2>7, Zenon
  <2> QED BY <2>2, <2>3, <2>6, <2>8
<1>7. CASE ZeroByte \/ ZeroBlock
  <2>1. PICK k \in Nat \ {0} : Zeroes(k) /\ k <= z
    BY <1>3, <1>7, LoaderAssumption DEF ZeroByte, ZeroBlock
  <2>2. /\ pc' = pc /\ commands' = commands /\ pc = "zero"
        /\ regs' = [regs EXCEPT !.dst = @ + k, !.zerosz = @ - k]
        /\ mem' = [a \in Addr |-> IF a \in d..d + k - 1 THEN Zero ELSE mem[a]]
    BY <1>7, <2>1 DEF Zeroes, ZeroByte, ZeroBlock
  <2>3. regs'.dst = d + k /\ regs'.copysz = x /\ regs'.zerosz = z - k /\ regs'.a3 = regs.a3
    BY <1>2, <2>2 DEF Registers
  <2>4. d + x + z <= end /\ end \in Int /\ d + x + z <= low /\ regs.a3 - 1 \in 1..Len(commands)
    BY <1>5, <2>2
  <2>5. commands'[regs'.a3 - 1] = cur
    BY <2>2, <2>3
  <2>6. WritesWithin'
    <3>1. (d + k) + x + (z - k) <= end
      <4> HIDE DEF d, x, z, end
      <4> QED BY <1>3, <2>1, <2>4
    <3> HIDE DEF d, x, z
    <3> QED BY <2>2, <2>3, <2>4, <2>5, <3>1 DEF WritesWithin, end
  <2>7. \A a \in Int : a >= low => a \notin d..d + k - 1
    <3> HIDE DEF d, x, z, end
    <3>1. d + z + x <= low
      BY <1>3, <2>4
    <3> QED BY <1>3, <2>1, <3>1, WritesBelow
  <2> HIDE DEF d, x, z
  <2>8. \A a \in Addr : a >= low => mem'[a] = mem[a]
    BY <1>1, <2>2, <2>7, Zenon
  <2> QED BY <2>2, <2>3, <2>6, <2>8
<1>8. CASE CopyDone \/ ZeroDone \/ Jump \/ UNCHANGED vars
  <2>1. /\ UNCHANGED <<regs, mem, commands>>
        /\ pc' \in {"copy", "zero"} => pc \in {"copy", "zero"}
    BY <1>8 DEF CopyDone, ZeroDone, Jump, vars
  <2> QED BY <2>1 DEF WritesWithin
<1>9. \/ LoadCommand \/ CopyByte \/ CopyBlock \/ CopyDone
      \/ ZeroByte \/ ZeroBlock \/ ZeroDone \/ Jump \/ UNCHANGED vars
  BY DEF InTrampoline, Next, Boot, prvShellCommandBoot, ReceiveFails, Receive, prvLoadAndBoot,
         NotElf, ElfHeader, SkipHeader, SegmentOut, AddCommand, NextFile, NoEntry, CopyTrampoline
<1> QED BY <1>4, <1>6, <1>7, <1>8, <1>9

\* The trampoline starts by being copied
LEMMA Copied ==
    ASSUME IInv, Counted, CopyTrampoline
    PROVE  WritesWithin' /\ InMemory'
<1> DEFINE t == TrampAt(commands)
           l == ListAt(commands)
<1>1. /\ pc = "phdr" /\ at = [file |-> 1, phdr |-> 0] /\ pc' = "next" /\ commands' = commands
      /\ mem' = [a \in Addr |->
                   IF a \in t..t + TrampSize - 1 THEN Code
                   ELSE IF a \in l..Staging - 1 THEN Listed ELSE mem[a]]
  BY DEF CopyTrampoline
<1>2. Len(commands) <= 2 * MaxPhnum + 1
  <2>1. [Next]_vars
    BY DEF Next, Boot
  <2>2. Counted'
    BY <2>1, CountedStep
  <2> QED BY <1>1, <2>2 DEF Counted, Started
<1>3. /\ t \in Int /\ l \in Int /\ 0 <= t /\ t + TrampSize = l /\ l <= Staging
      /\ Staging \in Nat /\ Staging < AddrMod /\ AddrMod \in Nat /\ TrampSize \in Nat
  BY <1>2, ListIs, LoaderAssumption
<1>4. TrampAt(commands') = t /\ ListAt(commands') = l
  BY <1>1
<1> HIDE DEF t, l
<1>5. ASSUME NEW a \in t..l - 1 PROVE mem'[a] = Code
  <2>1. a \in Addr /\ a \in t..t + TrampSize - 1
    BY <1>3, <1>5 DEF Addr
  <2> QED BY <1>1, <2>1
<1>6. ASSUME NEW a \in l..Staging - 1 PROVE mem'[a] = Listed
  <2>1. a \in Addr /\ a \notin t..t + TrampSize - 1
    BY <1>3, <1>6 DEF Addr
  <2> QED BY <1>1, <2>1
<1> QED BY <1>1, <1>4, <1>5, <1>6 DEF WritesWithin, InMemory

LEMMA ScratchStep ==
    ASSUME IInv, Scratch, [Next]_vars
    PROVE  Scratch'
<1>1. Counted'
  BY CountedStep DEF Scratch
<1>2. CASE InTrampoline /\ ~Clobbered
  <2> DEFINE t == TrampAt(commands)
             l == ListAt(commands)
             c == commands[regs.a3 - 1]
  <2>1. /\ t \in Int /\ l \in Int /\ 0 <= t /\ t + TrampSize = l
        /\ l <= Staging /\ Staging \in Nat /\ Staging < AddrMod /\ AddrMod \in Nat
        /\ TrampSize \in Nat
    <3>1. Len(commands) <= 2 * MaxPhnum + 1
      BY <1>2 DEF Scratch, Counted, Started, InTrampoline
    <3> QED BY <3>1, ListIs, LoaderAssumption
  <2>2. regs.a3 \in Nat /\ Len(commands) \in Nat /\ commands \in Seq(load_command)
        /\ regs.dst \in Nat /\ regs.copysz \in Nat /\ regs.zerosz \in Nat
    BY LenProperties, LoaderAssumption DEF IInv, LoaderTypeOK, Registers, Addr
  <2> DEFINE sum == regs.dst + regs.copysz + regs.zerosz
  <2>3. sum \in Nat
    BY <2>2
  <2>4. /\ WritesWithin' /\ commands' = commands
        /\ pc' = "next" \/ pc = "next" \/ regs'.a3 = regs.a3
        /\ regs'.a3 \in {regs.a3, regs.a3 + 1}
    BY <1>2, <2>3, WritesStep DEF Scratch
  <2>5. TrampAt(commands') = t /\ ListAt(commands') = l
    BY <2>4
  <2>6. CASE \E k \in 1..regs.a3 - 1 : Reaches(commands[k])
    <3>1. PICK k \in 1..regs.a3 - 1 : Reaches(commands[k])
      BY <2>6
    <3>2. k \in 1..regs'.a3 - 1
      BY <2>2, <2>4
    <3>3. Reaches(commands[k])'
      BY <2>4, <3>1 DEF Reaches
    <3> QED BY <1>1, <2>4, <3>2, <3>3 DEF Scratch, Kept
  <2>7. CASE ~\E k \in 1..regs.a3 - 1 : Reaches(commands[k])
    <3>1. InMemory
      BY <1>2, <2>7 DEF Scratch, Kept
    <3>2. pc \in {"copy", "zero"} => sum <= t
      <4> SUFFICES ASSUME pc \in {"copy", "zero"} PROVE sum <= t
        OBVIOUS
      <4>1. regs.a3 - 1 \in 1..Len(commands) /\ sum <= c.dst + c.copysz + c.zerosz
        BY DEF Scratch, WritesWithin
      <4>2. regs.a3 - 1 \in 1..regs.a3 - 1
        BY <2>2, <4>1
      <4>3. ~(c.dst + c.copysz + c.zerosz > t)
        BY <2>7, <4>2 DEF Reaches
      <4>4. c \in load_command
        BY <2>2, <4>1, ElementOfSeq
      <4>5. c.dst \in Nat /\ c.copysz \in Nat /\ c.zerosz \in Nat
        BY <4>4, LoaderAssumption DEF load_command, Addr
      <4> HIDE DEF c, t, sum
      <4> QED BY <2>1, <2>3, <4>1, <4>3, <4>5
    <3>3. \A a \in Addr : a >= t => mem'[a] = mem[a]
      BY <1>2, <2>1, <3>2, WritesStep DEF Scratch
    <3>4. /\ \A a \in t..l - 1 : mem[a] = Code
          /\ \A a \in l..Staging - 1 : mem[a] = Listed
      BY <3>1 DEF InMemory
    <3> HIDE DEF t, l
    <3>5. ASSUME NEW a \in t..l - 1 PROVE mem'[a] = Code
      <4>1. a \in Addr /\ a >= t
        BY <2>1, <3>5 DEF Addr
      <4> QED BY <3>3, <3>4, <4>1
    <3>6. ASSUME NEW a \in l..Staging - 1 PROVE mem'[a] = Listed
      <4>1. a \in Addr /\ a >= t
        BY <2>1, <3>6 DEF Addr
      <4> QED BY <3>3, <3>4, <4>1
    <3>7. InMemory'
      BY <2>5, <3>5, <3>6 DEF InMemory
    <3> QED BY <1>1, <2>4, <3>7 DEF Scratch, Kept
  <2> QED BY <2>6, <2>7
<1>3. CASE CopyTrampoline
  BY <1>1, <1>3, Copied DEF Scratch, Kept
<1>4. CASE (~InTrampoline \/ Clobbered) /\ ~CopyTrampoline
  <2>1. ~InTrampoline'
    BY <1>4 DEF InTrampoline, Next, Boot, vars, prvShellCommandBoot, ReceiveFails, Receive,
                prvLoadAndBoot, NotElf, ElfHeader, SkipHeader, SegmentOut, AddCommand, NextFile,
                NoEntry, LoadCommand, CopyByte, CopyBlock, CopyDone, ZeroByte, ZeroBlock,
                ZeroDone, Jump, Returns, Clobbered
  <2> QED BY <1>1, <2>1 DEF Scratch, WritesWithin, Kept, InTrampoline
<1> QED BY <1>2, <1>3, <1>4

\* The trampoline neither overwrites itself nor a command it has still to read,
\* whatever files, segments and alignments there are, before it carries out a
\* command for a segment that reaches into the scratch area.  What it does
\* after such a command is shown by the model checker: line 537 accepts it.
THEOREM ScratchSafe == Spec => []ScratchKept
<1>1. Init => IInv /\ Scratch
  <2> SUFFICES ASSUME Init PROVE Scratch
    BY Start
  <2>1. pc = "shell"
    BY DEF Init
  <2> QED BY <2>1 DEF Scratch, Counted, WritesWithin, Kept, Started, InTrampoline
<1>2. IInv /\ Scratch /\ [Next]_vars => (IInv /\ Scratch)'
  BY Step, ScratchStep
<1>3. IInv /\ Scratch => ScratchKept
  <2> SUFFICES ASSUME IInv, Scratch, InTrampoline, InMemory
               PROVE  CodeKept /\ ListKept(regs.a3)
    BY DEF ScratchKept, Scratch, Kept
  <2> DEFINE t == TrampAt(commands)
             l == ListAt(commands)
             n == CmdSize * (regs.a3 - 1)
  <2>1. t \in Int /\ l \in Int /\ t + TrampSize = l /\ TrampSize \in Nat /\ Staging \in Nat
    <3>1. Len(commands) <= 2 * MaxPhnum + 1
      BY DEF Scratch, Counted, Started, InTrampoline
    <3> QED BY <3>1, ListIs, LoaderAssumption
  <2>2. n \in Nat
    <3> DEFINE a == regs.a3 - 1
    <3>1. a \in Nat /\ CmdSize \in Nat
      BY LenProperties, LoaderAssumption DEF IInv, LoaderTypeOK, Progress, Started, InTrampoline
    <3> HIDE DEF a
    <3>2. CmdSize * a \in Nat
      BY <3>1
    <3> QED BY <3>2 DEF a
  <2>3. /\ \A a \in t..l - 1 : mem[a] = Code
        /\ \A a \in l..Staging - 1 : mem[a] = Listed
    BY DEF InMemory
  <2> HIDE DEF t, l, n
  <2>4. \A a \in t..t + TrampSize - 1 : mem[a] = Code
    BY <2>1, <2>3
  <2>5. \A a \in l + n..Staging - 1 : mem[a] = Listed
    BY <2>1, <2>2, <2>3
  <2> QED BY <2>4, <2>5, Zenon DEF CodeKept, ListKept, t, l, n
<1> QED BY <1>1, <1>2, <1>3, PTL DEF Spec

-----------------------------------------------------------------------------
(***************************************************************************)
(* What is in memory when the image is started.                            *)
(***************************************************************************)
\* Two files fit between STAGING_ADDR and the end of the address space, and
\* the segments that are accepted are those of a well-formed file: their bytes
\* are in it, no more than their memory, and their end is an address
FilesWhole ==
    /\ \A f, g \in Images : Staging + Rounded(f.size) + g.size <= AddrMod
    /\ \A f \in Images : \A k \in 1..Len(f.phdrs) :
         LET p == f.phdrs[k] IN
         p.load /\ ~OutOfBounds(p) =>
             /\ p.p_offset + p.p_filesz <= f.size
             /\ p.p_filesz <= p.p_memsz /\ p.p_paddr + p.p_memsz < AddrMod

\* The files are staged one behind the other and stay there
Staged ==
    /\ \A f \in 1..Len(bufs) :
         /\ Staging <= bufs[f] /\ bufs[f] + files[f].size <= AddrMod
         /\ \A o \in 0..files[f].size - 1 : mem[bufs[f] + o] = <<f, o>>
    /\ pc = "receive" /\ Len(bufs) = 1 =>
         bufs[1] = Staging /\ staging = Staging + Rounded(files[1].size)

\* Nothing is written below STAGING_ADDR before the trampoline
Untouched == ~Started /\ pc # "lost" => \A a \in Addr : a < Staging => mem[a] = Old

\* The segments from the k-th of file f on, in the order of Before, and the
\* list of their commands
Rest(f, k) == {s \in Segments : s[1] > f \/ (s[1] = f /\ s[2] > k)}

CommandOf(c, s, fs, bs) ==
    LET p == fs[s[1]].phdrs[s[2]] IN c = Command(p, bs[s[1]]) /\ ~OutOfBounds(p)

Matches(list, seg, S, fs, bs) ==
    /\ \A j \in 1..Len(list) - 1 : seg[j] \in S /\ CommandOf(list[j], seg[j], fs, bs)
    /\ \A s \in S : \E j \in 1..Len(list) - 1 : seg[j] = s
    /\ \A i, j \in 1..Len(list) - 1 : i < j => Before(seg[i], seg[j])

Listing(list, S, fs, bs) == \E seg \in [1..Len(list) - 1 -> S] : Matches(list, seg, S, fs, bs)

ListComplete ==
    /\ pc = "elf" => Listing(commands, Rest(at.file, Len(files[at.file].phdrs)), files, bufs)
    /\ pc = "phdr" => Listing(commands, Rest(at.file, at.phdr), files, bufs)
    /\ Started => Listing(commands, Segments, files, bufs)

\* The registers between the start and the end of a command
Running ==
    /\ pc \in {"copy", "zero"} =>
         LET c == commands[regs.a3 - 1] IN
         /\ regs.a3 - 1 \in 1..Len(commands) - 1
         /\ regs.dst + regs.copysz + regs.zerosz = c.dst + c.copysz + c.zerosz
         /\ c.dst <= regs.dst /\ regs.zerosz <= c.zerosz
         /\ pc = "copy" => regs.zerosz = c.zerosz /\ regs.src - c.src = regs.dst - c.dst
         /\ pc = "zero" => regs.copysz = 0
    /\ pc = "image" => regs.a3 = Len(commands)

\* How far the j-th command has been carried out, and what it writes
End(j) ==
    LET c == commands[j] IN
    IF pc \in {"copy", "zero"} /\ j = regs.a3 - 1 THEN regs.dst
    ELSE IF j < regs.a3 THEN c.dst + c.copysz + c.zerosz ELSE c.dst

Reached(j, a) == commands[j].dst <= a /\ a < End(j)

Content(j, a) ==
    LET c == commands[j] IN
    IF a - c.dst < c.copysz THEN mem[c.src + (a - c.dst)] ELSE Zero

\* The last command to reach an address has written it
Written(a) ==
    LET J == 1..Len(commands) - 1 IN
    \/ mem[a] = Old /\ \A j \in J : ~Reached(j, a)
    \/ \E j \in J : /\ Reached(j, a) /\ mem[a] = Content(j, a)
                    /\ \A i \in J : Reached(i, a) => i <= j

LoadedSoFar == Started => \A a \in Base..TrampAt(commands) - 1 : Written(a)

\* The command in hand ends below what is staged
EndsBelow == pc \in {"copy", "zero"} => regs.dst + regs.copysz + regs.zerosz <= Staging

InPlace == Staged /\ Untouched /\ ListComplete /\ Running /\ LoadedSoFar

LEMMA RoundedIs == ASSUME NEW x \in Nat PROVE Rounded(x) \in Nat /\ x <= Rounded(x)
<1>1. (-x) % Align \in Nat
  BY LoaderAssumption, RoundedUp
<1> QED BY <1>1 DEF Rounded

LEMMA AddrIs == Addr = {a \in Nat : a < AddrMod} /\ Staging \in Nat /\ AddrMod \in Nat /\ Base \in Nat
BY LoaderAssumption DEF Addr

\* What is staged is moved by no step but Receive and the return to the shell
LEMMA KeptAbove ==
    ASSUME IInv, Scratch, EndsBelow, [Next]_vars, ~Receive, ~Returns
    PROVE  \A a \in Addr : a >= Staging => mem'[a] = mem[a]
<1>1. CASE InTrampoline /\ ~Clobbered
  <2>1. Staging \in Int
    BY LoaderAssumption
  <2> QED BY <1>1, <2>1, WritesStep DEF Scratch, EndsBelow
<1>2. CASE CopyTrampoline
  <2> DEFINE t == TrampAt(commands)
             l == ListAt(commands)
  <2>1. mem' = [a \in Addr |-> IF a \in t..t + TrampSize - 1 THEN Code
                               ELSE IF a \in l..Staging - 1 THEN Listed ELSE mem[a]]
    BY <1>2 DEF CopyTrampoline
  <2>2. t \in Int /\ l \in Int /\ t + TrampSize = l /\ l <= Staging /\ TrampSize \in Nat
    <3>1. Counted'
      BY CountedStep DEF Scratch
    <3>2. Len(commands) <= 2 * MaxPhnum + 1
      BY <1>2, <3>1 DEF CopyTrampoline, Counted, Started
    <3> QED BY <3>2, ListIs, LoaderAssumption
  <2> HIDE DEF t, l
  <2> SUFFICES ASSUME NEW a \in Addr, a >= Staging PROVE mem'[a] = mem[a]
    OBVIOUS
  <2>3. a \notin t..t + TrampSize - 1 /\ a \notin l..Staging - 1
    BY <2>2, AddrIs
  <2> QED BY <2>1, <2>3
<1>3. CASE mem' = mem
  BY <1>3
<1>4. (InTrampoline /\ ~Clobbered) \/ CopyTrampoline \/ mem' = mem
  BY DEF InTrampoline, Next, Boot, vars, prvShellCommandBoot, ReceiveFails,
         prvLoadAndBoot, NotElf, ElfHeader, SkipHeader, SegmentOut, AddCommand, NextFile,
         NoEntry, LoadCommand, CopyByte, CopyBlock, CopyDone, ZeroByte, ZeroBlock,
         ZeroDone, Jump, Clobbered
<1> QED BY <1>1, <1>2, <1>3, <1>4

LEMMA ReceiveStaged ==
    ASSUME FilesWhole, IInv, Staged, Receive
    PROVE  Staged'
<1> DEFINE n == Len(bufs)
           i == n + 1
           x == files[i].size
<1>1. /\ pc = "receive" /\ pc' = "receive" /\ i <= Len(files) /\ files' = files
      /\ mem' = [a \in Addr |-> IF a \in staging..staging + x - 1 THEN <<i, a - staging>> ELSE mem[a]]
      /\ bufs' = Append(bufs, staging)
      /\ staging' = staging + Rounded(x)
  BY DEF Receive
<1>2. /\ bufs \in Seq(Nat) /\ n \in Nat /\ staging \in Nat /\ files \in Seq(Images)
      /\ Len(files) \in Nat /\ Len(files) <= 2
  BY LenProperties DEF IInv, LoaderTypeOK, MaxFiles
<1>3. /\ Len(bufs') = i /\ bufs'[i] = staging
      /\ \A f \in 1..n : bufs'[f] = bufs[f]
  BY <1>1, <1>2
<1>4. n \in {0, 1}
  <2> DEFINE l == Len(files)
  <2>1. n \in Nat /\ l \in Nat /\ n + 1 <= l /\ l <= 2
    BY <1>1, <1>2
  <2> HIDE DEF n, l
  <2> QED BY <2>1
<1>5. /\ files[i] \in Images /\ x \in Nat /\ files[1] \in Images /\ files[1].size \in Nat
  BY <1>1, <1>2, <1>4, LoaderAssumption
<1> DEFINE y == files[1].size
<1>y. x \in Nat /\ y \in Nat
  BY <1>5
<1>6. Rounded(x) \in Nat /\ x <= Rounded(x) /\ Rounded(y) \in Nat /\ y <= Rounded(y)
  BY <1>5, RoundedIs
<1>7. /\ n = 0 => staging = Staging
      /\ n = 1 => staging = Staging + Rounded(y) /\ bufs[1] = Staging
  BY <1>1 DEF IInv, Progress, Staged
<1>8. Staging <= staging /\ staging + x <= AddrMod
  <2>1. Staging + Rounded(y) + x <= AddrMod /\ Staging + Rounded(x) + x <= AddrMod
    BY <1>5 DEF FilesWhole
  <2> DEFINE r == Rounded(y)
             q == Rounded(x)
  <2>2. /\ n = 0 => staging = Staging
        /\ n = 1 => staging = Staging + r
        /\ Staging + r + x <= AddrMod /\ Staging + q + x <= AddrMod /\ r \in Nat /\ q \in Nat
    BY <1>6, <1>7, <2>1
  <2> HIDE DEF n, x, y, r, q
  <2> QED BY <1>2, <1>4, <1>y, <2>2, AddrIs
<1>9. ASSUME NEW o \in 0..x - 1 PROVE mem'[staging + o] = <<i, o>>
  <2> HIDE DEF x
  <2>1. /\ staging + o \in Addr /\ staging + o \in staging..staging + x - 1
        /\ (staging + o) - staging = o
    BY <1>2, <1>y, <1>8, <1>9, AddrIs
  <2> QED BY <1>1, <2>1 DEF x
<1>10. ASSUME NEW f \in 1..n
       PROVE  /\ Staging <= bufs[f] /\ bufs[f] + files[f].size <= AddrMod
              /\ \A o \in 0..files[f].size - 1 : mem'[bufs[f] + o] = <<f, o>>
  <2>1. f = 1 /\ n = 1
    <3> HIDE DEF n
    <3> QED BY <1>4, <1>10
  <2>2. staging = Staging + Rounded(y) /\ bufs[1] = Staging
    BY <1>7, <2>1
  <2>3. /\ Staging <= bufs[1] /\ bufs[1] + y <= AddrMod
        /\ \A o \in 0..y - 1 : mem[bufs[1] + o] = <<1, o>>
    BY <2>1 DEF Staged
  <2>4. y \in Nat
    BY <1>5
  <2> HIDE DEF y, x, i, n
  <2>5. ASSUME NEW o \in 0..y - 1 PROVE mem'[bufs[1] + o] = <<1, o>>
    <3>1. bufs[1] + o \in Addr /\ bufs[1] + o \notin staging..staging + x - 1
      <4> DEFINE b == bufs[1]
                 r == Rounded(y)
      <4>1. staging = Staging + r /\ b = Staging /\ y <= r /\ r \in Nat /\ b + y <= AddrMod
        BY <1>6, <2>2, <2>3
      <4> HIDE DEF b, r
      <4>2. b + o \in Addr /\ b + o \notin staging..staging + x - 1
        BY <1>2, <1>y, <2>4, <2>5, <4>1, AddrIs
      <4> QED BY <4>2 DEF b
    <3>2. mem'[bufs[1] + o] = mem[bufs[1] + o]
      BY <1>1, <3>1 DEF x, i, n
    <3> QED BY <2>3, <3>2
  <2> QED BY <2>1, <2>3, <2>5 DEF y
<1>11. ASSUME NEW f \in 1..Len(bufs')
       PROVE  /\ Staging <= bufs'[f] /\ bufs'[f] + files[f].size <= AddrMod
              /\ \A o \in 0..files[f].size - 1 : mem'[bufs'[f] + o] = <<f, o>>
  <2>1. CASE f = i
    BY <1>3, <1>8, <1>9, <2>1
  <2>2. CASE f # i
    <3>1. f \in 1..n
      BY <1>2, <1>3, <2>2
    <3> QED BY <1>3, <1>10, <3>1
  <2> QED BY <2>1, <2>2
<1>12. ASSUME Len(bufs') = 1
       PROVE  bufs'[1] = Staging /\ staging' = Staging + Rounded(files[1].size)
  <2>1. n = 0 /\ i = 1
    <3>1. n + 1 = 1
      BY <1>3, <1>12
    <3> HIDE DEF n
    <3> QED BY <1>4, <3>1
  <2> QED BY <1>1, <1>3, <1>7, <2>1
<1> QED BY <1>1, <1>11, <1>12 DEF Staged

LEMMA StagedStep ==
    ASSUME FilesWhole, IInv, Scratch, EndsBelow, Staged, [Next]_vars
    PROVE  Staged'
<1>1. CASE Receive
  BY <1>1, ReceiveStaged
<1>2. CASE Returns \/ prvShellCommandBoot
  <2>1. Len(bufs') = 0
    BY <1>2, EmptySeq DEF Returns, prvShellCommandBoot, IInv, Progress
  <2> QED BY <2>1 DEF Staged
<1>3. CASE ~Receive /\ ~Returns /\ ~prvShellCommandBoot
  <2>1. UNCHANGED <<files, bufs, staging>> /\ (pc' = "receive" => pc = "receive")
    BY <1>3 DEF Next, Boot, vars, ReceiveFails, prvLoadAndBoot, NotElf, ElfHeader,
         SkipHeader, SegmentOut, AddCommand, NextFile, NoEntry, CopyTrampoline, LoadCommand,
         CopyByte, CopyBlock, CopyDone, ZeroByte, ZeroBlock, ZeroDone, Jump, Copies, Zeroes,
         Clobbered
  <2>2. \A a \in Addr : a >= Staging => mem'[a] = mem[a]
    BY <1>3, KeptAbove
  <2>3. bufs \in Seq(Nat) /\ Len(bufs) \in Nat /\ files \in Seq(Images) /\ Len(bufs) <= Len(files)
        /\ Len(files) \in Nat
    BY LenProperties DEF IInv, LoaderTypeOK
  <2>4. ASSUME NEW f \in 1..Len(bufs), NEW o \in 0..files[f].size - 1
        PROVE  mem'[bufs[f] + o] = <<f, o>>
    <3> DEFINE b == bufs[f]
               x == files[f].size
    <3>1. b \in Nat /\ x \in Nat /\ Staging <= b /\ b + x <= AddrMod /\ mem[b + o] = <<f, o>>
      <4>1. f \in 1..Len(files)
        BY <2>3
      <4>2. b \in Nat /\ files[f] \in Images
        BY <2>3, <4>1, ElementOfSeq
      <4>3. x \in Nat
        BY <4>2, LoaderAssumption
      <4>4. Staging <= b /\ b + x <= AddrMod /\ mem[b + o] = <<f, o>>
        BY <2>4 DEF Staged
      <4> QED BY <4>2, <4>3, <4>4
    <3>2. b + o \in Addr /\ b + o >= Staging
      <4>1. o \in 0..x - 1
        BY <2>4
      <4> HIDE DEF b, x
      <4> QED BY <3>1, <4>1, AddrIs
    <3> QED BY <2>2, <3>1, <3>2
  <2> QED BY <2>1, <2>4 DEF Staged
<1> QED BY <1>1, <1>2, <1>3

LEMMA UntouchedStep ==
    ASSUME IInv, Staged, Untouched, [Next]_vars
    PROVE  Untouched'
<1> SUFFICES ASSUME ~Started', pc' # "lost", NEW a \in Addr, a < Staging PROVE mem'[a] = Old
  BY DEF Untouched
<1>1. CASE Returns
  BY <1>1 DEF Returns
<1>2. CASE Receive
  <2> DEFINE x == files[Len(bufs) + 1].size
  <2>1. /\ pc = "receive" /\ Len(bufs) + 1 <= Len(files)
        /\ mem'[a] = IF a \in staging..staging + x - 1 THEN <<Len(bufs) + 1, a - staging>> ELSE mem[a]
    BY <1>2 DEF Receive
  <2>2. Staging <= staging /\ staging \in Nat
    <3>1. Len(bufs) \in Nat /\ Len(files) \in Nat /\ Len(files) <= 2 /\ staging \in Nat
          /\ files \in Seq(Images)
      BY LenProperties DEF IInv, LoaderTypeOK, MaxFiles
    <3>2. Len(bufs) = 0 \/ Len(bufs) = 1
      <4> DEFINE n == Len(bufs)
                 l == Len(files)
      <4>1. n \in Nat /\ l \in Nat /\ n + 1 <= l /\ l <= 2
        BY <2>1, <3>1
      <4> HIDE DEF n, l
      <4>2. n = 0 \/ n = 1
        BY <4>1
      <4> QED BY <4>2 DEF n
    <3>3. CASE Len(bufs) = 0
      BY <2>1, <3>3, AddrIs DEF IInv, Progress
    <3>4. CASE Len(bufs) = 1
      <4>1. files[1] \in Images
        BY <2>1, <3>1
      <4>2. Rounded(files[1].size) \in Nat
        BY <4>1, LoaderAssumption, RoundedIs
      <4>3. staging = Staging + Rounded(files[1].size)
        BY <2>1, <3>4 DEF Staged
      <4> QED BY <3>1, <4>2, <4>3, AddrIs
    <3> QED BY <3>1, <3>2, <3>3, <3>4
  <2>3. a \notin staging..staging + x - 1
    BY <2>2, AddrIs
  <2>4. ~Started /\ pc # "lost"
    BY <2>1 DEF Started
  <2> QED BY <2>1, <2>3, <2>4 DEF Untouched
<1>3. CASE ~Returns /\ ~Receive
  <2>1. mem' = mem /\ ~Started /\ pc # "lost"
    BY <1>3 DEF Started, Next, Boot, vars, prvShellCommandBoot, ReceiveFails, prvLoadAndBoot,
         NotElf, ElfHeader, SkipHeader, SegmentOut, AddCommand, NextFile, NoEntry,
         CopyTrampoline, LoadCommand, CopyByte, CopyBlock, CopyDone, ZeroByte, ZeroBlock,
         ZeroDone, Jump, Copies, Zeroes, Clobbered
  <2> QED BY <2>1 DEF Untouched
<1> QED BY <1>1, <1>2, <1>3

LEMMA SegmentsIs ==
    \A s : s \in Segments <=>
        \E f \in 1..Len(files) : \E k \in 1..Len(files[f].phdrs) : s = <<f, k>> /\ files[f].phdrs[k].load
BY DEF Segments

\* The step to the next header, the next file, and both ends
LEMMA RestLess ==
    ASSUME NEW f \in 1..Len(files), Len(files) \in Nat,
           Len(files[f].phdrs) \in Nat, NEW k \in 1..Len(files[f].phdrs)
    PROVE  Rest(f, k - 1) = IF files[f].phdrs[k].load THEN Rest(f, k) \cup {<<f, k>>} ELSE Rest(f, k)
<1>1. ASSUME NEW g \in 1..Len(files), NEW h \in 1..Len(files[g].phdrs)
      PROVE  (g = f /\ h > k - 1) <=> ((g = f /\ h > k) \/ <<g, h>> = <<f, k>>)
  <2>1. h \in Int
    BY <1>1
  <2> QED BY <2>1
<1>2. \A s \in Segments : (s[1] = f /\ s[2] > k - 1) <=> ((s[1] = f /\ s[2] > k) \/ s = <<f, k>>)
  BY <1>1, SegmentsIs
<1>3. <<f, k>> \in Segments <=> files[f].phdrs[k].load
  BY SegmentsIs
<1> QED BY <1>2, <1>3, Zenon DEF Rest

LEMMA RestFile ==
    ASSUME NEW f \in 2..Len(files), Len(files) \in Nat, Len(files[f - 1].phdrs) \in Nat
    PROVE  Rest(f, 0) = Rest(f - 1, Len(files[f - 1].phdrs))
<1>1. ASSUME NEW g \in 1..Len(files), NEW h \in 1..Len(files[g].phdrs)
      PROVE  (g > f \/ (g = f /\ h > 0)) <=> (g > f - 1 \/ (g = f - 1 /\ h > Len(files[f - 1].phdrs)))
  <2>1. CASE g = f - 1
    BY <1>1, <2>1
  <2>2. CASE g # f - 1
    BY <1>1, <2>2
  <2> QED BY <2>1, <2>2
<1>2. \A s \in Segments : (s[1] > f \/ (s[1] = f /\ s[2] > 0)) <=>
                          (s[1] > f - 1 \/ (s[1] = f - 1 /\ s[2] > Len(files[f - 1].phdrs)))
  BY <1>1, SegmentsIs
<1> QED BY <1>2, Zenon DEF Rest

LEMMA RestEnds ==
    ASSUME Len(files) \in Nat \ {0}, Len(files[Len(files)].phdrs) \in Nat
    PROVE  Rest(1, 0) = Segments /\ Rest(Len(files), Len(files[Len(files)].phdrs)) = {}
<1>1. \A s \in Segments : s[1] > 1 \/ (s[1] = 1 /\ s[2] > 0)
  BY SegmentsIs
<1>2. \A s \in Segments : ~(s[1] > Len(files) \/ (s[1] = Len(files) /\ s[2] > Len(files[Len(files)].phdrs)))
  BY SegmentsIs
<1> QED BY <1>1, <1>2 DEF Rest

\* One more command at the front of the list, for a segment before the others
LEMMA ListingGrows ==
    ASSUME NEW list \in Seq(load_command), Len(list) \in Nat \ {0}, NEW c \in load_command,
           NEW S, NEW s, NEW fs, NEW bs, Listing(list, S, fs, bs), CommandOf(c, s, fs, bs),
           \A t \in S : Before(s, t)
    PROVE  Listing(<<c>> \o list, S \cup {s}, fs, bs)
<1> DEFINE new == <<c>> \o list
           n == Len(list) - 1
<1>1. PICK seg \in [1..n -> S] : Matches(list, seg, S, fs, bs)
  BY DEF Listing
<1>2. /\ Len(new) = 1 + Len(list) /\ new[1] = c
      /\ \A k \in 1..1 + Len(list) : k # 1 => new[k] = list[k - 1]
  BY Prepended
<1>3. n \in Nat /\ Len(list) = n + 1 /\ Len(new) - 1 = n + 1
  BY <1>2
<1> DEFINE seg2 == [j \in 1..n + 1 |-> IF j = 1 THEN s ELSE seg[j - 1]]
<1> HIDE DEF new, n
<1>4. \A j \in 1..n + 1 : j # 1 => j - 1 \in 1..n /\ new[j] = list[j - 1]
  BY <1>2, <1>3
<1>5. \A j \in 1..n : seg[j] \in S /\ CommandOf(list[j], seg[j], fs, bs)
  BY <1>1 DEF Matches, n
<1>6. \A t \in S : \E j \in 1..n : seg[j] = t
  BY <1>1 DEF Matches, n
<1>7. \A i, j \in 1..n : i < j => Before(seg[i], seg[j])
  BY <1>1 DEF Matches, n
<1>8. 1 \in 1..n + 1 /\ seg2[1] = s /\ \A j \in 1..n + 1 : j # 1 => seg2[j] = seg[j - 1]
  BY <1>3
<1>9. seg2 \in [1..n + 1 -> S \cup {s}]
  BY <1>4, <1>5
<1> HIDE DEF seg2
<1>10. ASSUME NEW j \in 1..n + 1 PROVE seg2[j] \in S \cup {s} /\ CommandOf(new[j], seg2[j], fs, bs)
  <2>1. CASE j = 1
    BY <1>2, <1>8, <2>1
  <2>2. CASE j # 1
    BY <1>4, <1>5, <1>8, <2>2
  <2> QED BY <2>1, <2>2
<1>11. ASSUME NEW t \in S \cup {s} PROVE \E j \in 1..n + 1 : seg2[j] = t
  <2>1. CASE t = s
    BY <1>8, <2>1
  <2>2. CASE t \in S
    <3>1. PICK j \in 1..n : seg[j] = t
      BY <1>6, <2>2
    <3>2. j + 1 \in 1..n + 1 /\ j + 1 # 1 /\ (j + 1) - 1 = j
      BY <1>3, <3>1
    <3>3. seg2[j + 1] = t
      BY <1>8, <3>1, <3>2
    <3> QED BY <3>2, <3>3
  <2> QED BY <2>1, <2>2
<1>12. ASSUME NEW i \in 1..n + 1, NEW j \in 1..n + 1, i < j PROVE Before(seg2[i], seg2[j])
  <2>1. j # 1 /\ j - 1 \in 1..n /\ seg2[j] = seg[j - 1]
    BY <1>3, <1>4, <1>8, <1>12
  <2>2. CASE i = 1
    BY <1>5, <1>8, <2>1, <2>2
  <2>3. CASE i # 1
    <3>1. i - 1 \in 1..n /\ seg2[i] = seg[i - 1] /\ i - 1 < j - 1
      BY <1>3, <1>4, <1>8, <1>12, <2>3
    <3> QED BY <1>7, <2>1, <3>1
  <2> QED BY <2>2, <2>3
<1>13. Matches(new, seg2, S \cup {s}, fs, bs)
  BY <1>3, <1>10, <1>11, <1>12, Zenon DEF Matches
<1> QED BY <1>3, <1>9, <1>13, Zenon DEF Listing, new

LEMMA ListCompleteStep ==
    ASSUME IInv, ListComplete, [Next]_vars
    PROVE  ListComplete'
<1>1. CASE pc' \in {"shell", "receive", "lost"}
  BY <1>1 DEF ListComplete, Started
<1>3. CASE UNCHANGED <<pc, files, bufs, at, commands>> \/ (Started /\ Started' /\ UNCHANGED <<files, bufs, commands>>)
  <2>1. Segments' = Segments /\ Rest(at.file, at.phdr)' = Rest(at'.file, at'.phdr)
        /\ Rest(at.file, Len(files[at.file].phdrs))' = Rest(at'.file, Len(files[at'.file].phdrs))
    BY <1>3 DEF Segments, Rest
  <2> QED BY <1>3, <2>1 DEF ListComplete, Started
<1>4. CASE prvLoadAndBoot
  <2> DEFINE f == Len(files)
             n == Len(files[f].phdrs)
             one == <<NullCommand>>
  <2>1. /\ pc = "receive" /\ pc' = "elf" /\ at' = [file |-> f, phdr |-> 0] /\ commands' = one
        /\ UNCHANGED <<files, bufs>>
    BY <1>4 DEF prvLoadAndBoot
  <2>2. f \in Nat \ {0} /\ n \in Nat
    <3>1. files \in Seq(Images) /\ f \in Nat \ {0}
      BY <2>1, LenProperties DEF IInv, LoaderTypeOK, Progress
    <3>2. files[f] \in Images
      BY <3>1, ElementOfSeq
    <3> QED BY <3>1, <3>2, LoaderAssumption, LenProperties
  <2>3. Rest(f, n) = {}
    BY <2>2, RestEnds
  <2>4. Rest(at.file, Len(files[at.file].phdrs))' = {}
    BY <2>1, <2>3 DEF Rest, Segments
  <2>5. Listing(one, {}, files, bufs)
    <3>1. Len(one) - 1 = 0
      OBVIOUS
    <3> HIDE DEF one
    <3>2. 1..0 = {}
      OBVIOUS
    <3> DEFINE seg == [j \in {} |-> 0]
    <3>3. seg \in [{} -> {}]
      OBVIOUS
    <3>4. Matches(one, seg, {}, files, bufs)
      BY <3>1, <3>2 DEF Matches
    <3> QED BY <3>1, <3>2, <3>3, <3>4 DEF Listing
  <2> QED BY <2>1, <2>4, <2>5 DEF ListComplete, Started
<1>5. CASE ElfHeader
  <2>1. /\ pc = "elf" /\ pc' = "phdr" /\ at' = [at EXCEPT !.phdr = Len(files[at.file].phdrs)]
        /\ UNCHANGED <<files, bufs, commands>>
    BY <1>5 DEF ElfHeader
  <2>2. at'.file = at.file /\ at'.phdr = Len(files[at.file].phdrs)
    BY <2>1, Looking
  <2>3. Rest(at.file, at.phdr)' = Rest(at.file, Len(files[at.file].phdrs))
    BY <2>1, <2>2 DEF Rest, Segments
  <2> QED BY <2>1, <2>3 DEF ListComplete, Started
<1>6. CASE SkipHeader \/ AddCommand
  <2> DEFINE f == at.file
             k == at.phdr
  <2>1. /\ pc = "phdr" /\ pc' = "phdr" /\ k > 0 /\ at' = [at EXCEPT !.phdr = @ - 1]
        /\ UNCHANGED <<files, bufs>>
    BY <1>6 DEF SkipHeader, AddCommand
  <2>2. /\ at'.file = f /\ at'.phdr = k - 1 /\ f \in 1..Len(files) /\ Len(files) \in Nat
        /\ Len(files[f].phdrs) \in Nat /\ k \in 1..Len(files[f].phdrs)
        /\ files[f].phdrs \in Seq(Elf_Phdr)
        /\ commands \in Seq(load_command) /\ Len(commands) \in Nat \ {0} /\ bufs[f] \in Nat
    BY <2>1, Looking DEF IInv, Progress
  <2>3. Rest(at.file, at.phdr)' = Rest(f, k - 1)
    BY <2>1, <2>2 DEF Rest, Segments
  <2>4. Listing(commands, Rest(f, k), files, bufs)
    BY <2>1 DEF ListComplete
  <2>5. Phdr = files[f].phdrs[k]
    BY DEF Phdr
  <2> HIDE DEF f, k
  <2>6. CASE SkipHeader
    <3>1. ~Phdr.load /\ commands' = commands
      BY <2>6 DEF SkipHeader
    <3>2. Rest(f, k - 1) = Rest(f, k)
      BY <2>2, <2>5, <3>1, RestLess
    <3> QED BY <2>1, <2>3, <2>4, <3>1, <3>2 DEF ListComplete, Started
  <2>7. CASE AddCommand
    <3> DEFINE c == Command(Phdr, bufs[f])
    <3>1. Phdr.load /\ ~OutOfBounds(Phdr) /\ commands' = <<c>> \o commands
      BY <2>7 DEF AddCommand, f
    <3>2. c \in load_command
      BY <2>2, <2>5, CommandIs, ElementOfSeq
    <3>3. CommandOf(c, <<f, k>>, files, bufs)
      BY <2>5, <3>1 DEF CommandOf
    <3> HIDE DEF c
    <3>4. Rest(f, k - 1) = Rest(f, k) \cup {<<f, k>>}
      BY <2>2, <2>5, <3>1, RestLess
    <3>5. \A t \in Rest(f, k) : Before(<<f, k>>, t)
      <4> SUFFICES ASSUME NEW t \in Rest(f, k) PROVE Before(<<f, k>>, t)
        OBVIOUS
      <4>1. t[1] \in Int /\ t[2] \in Int
        BY SegmentsIs DEF Rest
      <4>2. t[1] > f \/ (t[1] = f /\ t[2] > k)
        BY DEF Rest
      <4> QED BY <2>2, <4>1, <4>2 DEF Before
    <3>6. Listing(<<c>> \o commands, Rest(f, k) \cup {<<f, k>>}, files, bufs)
      BY <2>2, <2>4, <3>2, <3>3, <3>5, ListingGrows
    <3> QED BY <2>1, <2>3, <3>1, <3>4, <3>6 DEF ListComplete, Started
  <2> QED BY <1>6, <2>6, <2>7
<1>7. CASE NextFile
  <2> DEFINE f == at.file
             g == f - 1
  <2>1. /\ pc = "phdr" /\ pc' = "elf" /\ at.phdr = 0 /\ f > 1 /\ at' = [at EXCEPT !.file = @ - 1]
        /\ UNCHANGED <<files, bufs, commands>>
    BY <1>7 DEF NextFile
  <2>2. at'.file = g /\ f \in 2..Len(files) /\ Len(files) \in Nat /\ files \in Seq(Images)
    BY <2>1, Looking
  <2>3. Len(files[g].phdrs) \in Nat
    <3>1. g \in 1..Len(files)
      BY <2>2
    <3>2. files[g] \in Images
      BY <2>2, <3>1, ElementOfSeq
    <3> QED BY <3>2, LoaderAssumption, LenProperties
  <2>4. Rest(f, 0) = Rest(g, Len(files[g].phdrs))
    BY <2>2, <2>3, RestFile
  <2>5. Rest(at.file, Len(files[at.file].phdrs))' = Rest(g, Len(files[g].phdrs))
    BY <2>1, <2>2 DEF Rest, Segments
  <2> QED BY <2>1, <2>4, <2>5 DEF ListComplete, Started
<1>8. CASE CopyTrampoline
  <2>1. /\ pc = "phdr" /\ pc' = "next" /\ at = [file |-> 1, phdr |-> 0]
        /\ UNCHANGED <<files, bufs, commands>>
    BY <1>8 DEF CopyTrampoline
  <2>2. Rest(1, 0) = Segments
    <3>1. \A s \in Segments : s[1] > 1 \/ (s[1] = 1 /\ s[2] > 0)
      <4>1. Len(files) \in Nat
        BY <2>1, Looking
      <4> QED BY <4>1, SegmentsIs
    <3> QED BY <3>1 DEF Rest
  <2>3. Segments' = Segments
    BY <2>1 DEF Segments
  <2>4. Listing(commands, Rest(1, 0), files, bufs)
    BY <2>1 DEF ListComplete
  <2> QED BY <2>1, <2>2, <2>3, <2>4 DEF ListComplete, Started
<1>9. \/ pc' \in {"shell", "receive", "lost"} \/ prvLoadAndBoot \/ ElfHeader \/ SkipHeader \/ AddCommand
      \/ NextFile \/ CopyTrampoline \/ UNCHANGED <<pc, files, bufs, at, commands>>
      \/ (Started /\ Started' /\ UNCHANGED <<files, bufs, commands>>)
  BY DEF Next, Boot, vars, prvShellCommandBoot, ReceiveFails, Receive, NotElf, SegmentOut,
         NoEntry, LoadCommand, Returns, CopyByte, CopyBlock, CopyDone, ZeroByte, ZeroBlock,
         ZeroDone, Jump, Copies, Zeroes, Clobbered, Started
<1> QED BY <1>1, <1>3, <1>4, <1>5, <1>6, <1>7, <1>8, <1>9

\* A segment of the list, its header and its command
LEMMA SegmentFacts ==
    ASSUME FilesWhole, IInv, Staged, Started, NEW s \in Segments,
           ~OutOfBounds(Seg(s))
    PROVE  LET p == Seg(s)
               b == bufs[s[1]]
               x == files[s[1]].size IN
           /\ s[1] \in 1..Len(bufs) /\ p \in Elf_Phdr /\ b \in Nat /\ x \in Nat
           /\ Staging <= b /\ b + x <= AddrMod
           /\ p.p_offset + p.p_filesz <= x /\ p.p_filesz <= p.p_memsz
           /\ p.p_paddr + p.p_memsz <= Staging
           /\ \A o \in 0..x - 1 : mem[b + o] = <<s[1], o>>
<1>1. PICK f \in 1..Len(files) : \E k \in 1..Len(files[f].phdrs) : s = <<f, k>> /\ files[f].phdrs[k].load
  BY SegmentsIs
<1>2. PICK k \in 1..Len(files[f].phdrs) : s = <<f, k>> /\ files[f].phdrs[k].load
  BY <1>1
<1>3. /\ files \in Seq(Images) /\ bufs \in Seq(Nat) /\ Len(bufs) = Len(files)
  BY DEF IInv, LoaderTypeOK, Progress, Loading
<1>4. files[f] \in Images /\ bufs[f] \in Nat /\ f \in 1..Len(bufs)
  BY <1>1, <1>3, ElementOfSeq
<1>5. files[f].size \in Nat /\ files[f].phdrs \in Seq(Elf_Phdr)
  BY <1>4, LoaderAssumption
<1> DEFINE p == files[f].phdrs[k]
<1>6. p \in Elf_Phdr /\ Seg(s) = p /\ s[1] = f
  BY <1>2, <1>5, ElementOfSeq DEF Seg
<1>7. p.p_offset + p.p_filesz <= files[f].size /\ p.p_filesz <= p.p_memsz
      /\ p.p_paddr + p.p_memsz < AddrMod
  BY <1>2, <1>4, <1>6 DEF FilesWhole
<1>9. p.p_paddr + p.p_memsz <= Staging
  <2> DEFINE w == p.p_paddr + p.p_memsz
  <2>1. w \in Nat /\ w < AddrMod /\ AddrMod \in Nat \ {0}
    BY <1>6, <1>7, LoaderAssumption DEF Elf_Phdr, Addr
  <2>2. ~(w % AddrMod > Staging)
    BY <1>6 DEF OutOfBounds
  <2> HIDE DEF w
  <2>3. w <= Staging
    BY <2>1, <2>2, Small, LoaderAssumption
  <2> QED BY <2>3 DEF w
<1> HIDE DEF p
<1>8. /\ Staging <= bufs[f] /\ bufs[f] + files[f].size <= AddrMod
      /\ \A o \in 0..files[f].size - 1 : mem[bufs[f] + o] = <<f, o>>
  BY <1>4 DEF Staged
<1> QED BY <1>4, <1>5, <1>6, <1>7, <1>8, <1>9

\* The fields of a command, as numbers
LEMMA CommandFields ==
    ASSUME NEW p \in Elf_Phdr, NEW b \in Nat, p.p_filesz <= p.p_memsz
    PROVE  LET c == Command(p, b) IN
           /\ c.src = b + p.p_offset /\ c.dst = p.p_paddr /\ c.copysz = p.p_filesz
           /\ c.copysz + c.zerosz = p.p_memsz /\ c.zerosz \in Nat
           /\ p.p_offset \in Nat /\ p.p_paddr \in Nat /\ p.p_filesz \in Nat /\ p.p_memsz \in Nat
<1> DEFINE x == p.p_filesz
           y == p.p_memsz
           w == y - x
           c == Command(p, b)
<1>1. /\ c.src = b + p.p_offset /\ c.dst = p.p_paddr /\ c.copysz = x /\ c.zerosz = w % AddrMod
  BY DEF Command
<1>2. x \in Addr /\ y \in Addr /\ p.p_offset \in Addr /\ p.p_paddr \in Addr /\ x <= y
  BY DEF Elf_Phdr
<1> HIDE DEF c
<1>3. x \in Nat /\ y \in Nat /\ p.p_offset \in Nat /\ p.p_paddr \in Nat /\ y < AddrMod
  BY <1>2, AddrIs
<1> HIDE DEF x, y
<1>4. w \in Nat /\ w < AddrMod /\ AddrMod \in Nat \ {0} /\ x + w = y
  BY <1>2, <1>3, LoaderAssumption
<1> HIDE DEF w
<1>5. w % AddrMod = w
  BY <1>4, Small
<1> QED BY <1>1, <1>3, <1>4, <1>5 DEF x, y, c

LEMMA CommandFacts ==
    ASSUME FilesWhole, IInv, Staged, ListComplete, Started,
           NEW j \in 1..Len(commands) - 1
    PROVE  LET c == commands[j] IN
           /\ c.src \in Nat /\ c.dst \in Nat /\ c.copysz \in Nat /\ c.zerosz \in Nat
           /\ Staging <= c.src /\ c.src + c.copysz <= AddrMod /\ c.src # 0
           /\ c.dst + c.copysz + c.zerosz <= Staging
<1>1. PICK seg \in [1..Len(commands) - 1 -> Segments] : Matches(commands, seg, Segments, files, bufs)
  BY DEF ListComplete, Listing
<1> DEFINE s == seg[j]
           p == Seg(s)
           b == bufs[s[1]]
           x == files[s[1]].size
           c == commands[j]
<1>2. s \in Segments /\ c = Command(p, b) /\ ~OutOfBounds(p)
  BY <1>1 DEF Matches, CommandOf, Seg
<1> HIDE DEF s
<1>3. /\ p \in Elf_Phdr /\ b \in Nat /\ x \in Nat /\ Staging <= b /\ b + x <= AddrMod
      /\ p.p_offset + p.p_filesz <= x /\ p.p_filesz <= p.p_memsz
      /\ p.p_paddr + p.p_memsz <= Staging
  BY <1>2, SegmentFacts
<1> DEFINE o == p.p_offset
           z == p.p_filesz
<1> HIDE DEF p, b, x, c
<1>4. /\ c.src = b + o /\ c.dst \in Nat /\ c.copysz = z /\ c.zerosz \in Nat /\ o \in Nat /\ z \in Nat
  BY <1>2, <1>3, CommandFields
<1>8. c.dst + c.copysz + c.zerosz <= Staging
  <2> DEFINE y == p.p_memsz
             d == p.p_paddr
             cx == c.copysz
             cz == c.zerosz
  <2>1. c.dst = d /\ cx + cz = y /\ cx \in Nat /\ cz \in Nat /\ d \in Nat /\ y \in Nat /\ d + y <= Staging
    BY <1>2, <1>3, CommandFields
  <2> HIDE DEF y, d, cx, cz
  <2>2. d + cx + cz <= Staging
    BY <2>1, LoaderAssumption
  <2> QED BY <2>1, <2>2 DEF cx, cz
<1>5. o + z <= x
  BY <1>3
<1> HIDE DEF o, z
<1>7. /\ b + o \in Nat /\ Staging <= b + o /\ (b + o) + z <= AddrMod /\ b + o # 0
  <2>1. b \in Nat /\ x \in Nat /\ o \in Nat /\ z \in Nat /\ Staging <= b /\ b + x <= AddrMod
    BY <1>3, <1>4
  <2> QED BY <1>5, <2>1, LoaderAssumption
<1>6. c.src \in Nat /\ Staging <= c.src /\ c.src + c.copysz <= AddrMod /\ c.src # 0
  BY <1>4, <1>7
<1> QED BY <1>4, <1>6, <1>8 DEF c

LEMMA EndsIs ==
    ASSUME FilesWhole, IInv, Staged, ListComplete, Running
    PROVE  EndsBelow
<1> SUFFICES ASSUME pc \in {"copy", "zero"}
             PROVE  regs.dst + regs.copysz + regs.zerosz <= Staging
  BY DEF EndsBelow
<1>1. Started
  BY DEF Started
<1>2. regs.a3 - 1 \in 1..Len(commands) - 1
  BY DEF Running
<1>3. LET c == commands[regs.a3 - 1] IN
      /\ c.dst + c.copysz + c.zerosz <= Staging
      /\ regs.dst + regs.copysz + regs.zerosz = c.dst + c.copysz + c.zerosz
  BY <1>1, <1>2, CommandFacts DEF Running
<1> QED BY <1>3

LEMMA RunningStep ==
    ASSUME FilesWhole, IInv, Staged, ListComplete, Running, [Next]_vars
    PROVE  Running'
<1> DEFINE n == Len(commands) - 1
<1>0. ASSUME Started
      PROVE  /\ regs \in Registers /\ regs.a3 \in 1..Len(commands) /\ Len(commands) \in Nat \ {0}
             /\ regs.a3 \in Nat /\ regs.dst \in Nat /\ regs.src \in Nat
             /\ regs.copysz \in Nat /\ regs.zerosz \in Nat
  <2>1. regs \in Registers /\ regs.a3 \in 1..Len(commands) /\ Len(commands) \in Nat
    BY <1>0, LenProperties DEF IInv, LoaderTypeOK, Progress
  <2>2. regs.copysz \in Nat /\ regs.zerosz \in Nat
    BY <2>1, AddrIs DEF Registers
  <2> QED BY <2>1, <2>2 DEF Registers
<1>1. CASE LoadCommand
  <2> DEFINE c == commands[regs.a3]
  <2>1. /\ pc = "next" /\ c.src # 0 /\ pc' = "copy" /\ commands' = commands
        /\ regs' = [a3 |-> regs.a3 + 1, src |-> c.src, dst |-> c.dst,
                    copysz |-> c.copysz, zerosz |-> c.zerosz]
    BY <1>1 DEF LoadCommand
  <2>2. Started /\ commands[Len(commands)].src = 0
    BY <2>1 DEF Started, IInv, Progress, Loading
  <2>3. regs.a3 # Len(commands)
    BY <2>1, <2>2
  <2>4. regs.a3 \in 1..n /\ (regs.a3 + 1) - 1 = regs.a3
    BY <1>0, <2>2, <2>3
  <2>5. c.src \in Nat /\ c.dst \in Nat /\ c.copysz \in Nat /\ c.zerosz \in Nat
    BY <2>2, <2>4, CommandFacts
  <2> HIDE DEF c
  <2>6. /\ regs'.a3 - 1 = regs.a3 /\ regs'.src = c.src /\ regs'.dst = c.dst
        /\ regs'.copysz = c.copysz /\ regs'.zerosz = c.zerosz
    BY <2>1, <2>4
  <2>7. commands'[regs'.a3 - 1] = c
    BY <2>1, <2>6 DEF c
  <2> QED BY <2>1, <2>4, <2>5, <2>6, <2>7 DEF Running
<1>2. CASE CopyDone
  <2>1. /\ pc = "copy" /\ regs.copysz = 0 /\ pc' = "zero" /\ UNCHANGED <<regs, commands>>
    BY <1>2 DEF CopyDone
  <2> QED BY <2>1 DEF Running
<1>3. CASE Jump
  <2>1. /\ pc = "next" /\ commands[regs.a3].src = 0 /\ pc' = "image" /\ UNCHANGED <<regs, commands>>
    BY <1>3 DEF Jump
  <2>2. Started
    BY <2>1 DEF Started
  <2>3. regs.a3 \notin 1..n
    BY <2>1, <2>2, CommandFacts
  <2>4. regs.a3 = Len(commands)
    BY <1>0, <2>2, <2>3
  <2> QED BY <2>1, <2>4 DEF Running
<1> DEFINE cur == commands[regs.a3 - 1]
           d == regs.dst
           x == regs.copysz
           z == regs.zerosz
<1>4. ASSUME pc \in {"copy", "zero"}
      PROVE  /\ regs.a3 - 1 \in 1..n /\ d + x + z = cur.dst + cur.copysz + cur.zerosz
             /\ cur.dst <= d /\ z <= cur.zerosz /\ Started
             /\ cur.src \in Nat /\ cur.dst \in Nat /\ cur.copysz \in Nat /\ cur.zerosz \in Nat
             /\ d \in Nat /\ x \in Nat /\ z \in Nat /\ regs.src \in Nat /\ regs \in Registers
             /\ pc = "copy" => z = cur.zerosz /\ regs.src - cur.src = d - cur.dst
             /\ pc = "zero" => x = 0
  <2>1. Started
    BY <1>4 DEF Started
  <2>2. regs.a3 - 1 \in 1..n
    BY <1>4 DEF Running
  <2> QED BY <1>0, <1>4, <2>1, <2>2, CommandFacts DEF Running
<1>5. CASE CopyByte \/ CopyBlock
  <2>0. pc = "copy"
    BY <1>5 DEF CopyByte, CopyBlock
  <2>1. PICK k \in Nat \ {0} : Copies(k) /\ k <= x
    <3>1. x \in Nat
      BY <1>4, <2>0
    <3> QED BY <1>5, <3>1, LoaderAssumption DEF CopyByte, CopyBlock
  <2>2. /\ pc' = "copy" /\ commands' = commands
        /\ regs' = [regs EXCEPT !.src = @ + k, !.dst = @ + k, !.copysz = @ - k]
    BY <2>0, <2>1 DEF Copies
  <2>3. /\ regs'.a3 = regs.a3 /\ regs'.src = regs.src + k /\ regs'.dst = d + k
        /\ regs'.copysz = x - k /\ regs'.zerosz = z
    BY <1>4, <2>0, <2>2 DEF Registers
  <2>4. regs.a3 - 1 \in 1..n
    BY <1>4, <2>0
  <2> DEFINE e == regs.src
             cs == cur.src
             cd == cur.dst
             cx == cur.copysz
             cz == cur.zerosz
  <2>5. /\ d + x + z = cd + cx + cz /\ cd <= d /\ z <= cz /\ z = cz /\ e - cs = d - cd
        /\ cs \in Nat /\ cd \in Nat /\ cx \in Nat /\ cz \in Nat
        /\ d \in Nat /\ x \in Nat /\ z \in Nat /\ e \in Nat
    BY <1>4, <2>0
  <2>6. /\ (d + k) + (x - k) + z = cd + cx + cz /\ cd <= d + k /\ (e + k) - cs = (d + k) - cd
    <3> HIDE DEF d, x, z, e, cs, cd, cx, cz
    <3> QED BY <2>1, <2>5
  <2>7. commands'[regs'.a3 - 1] = cur
    BY <2>2, <2>3
  <2> HIDE DEF cur, d, x, z, n
  <2> QED BY <2>2, <2>3, <2>4, <2>5, <2>6, <2>7 DEF Running, n
<1>6. CASE ZeroByte \/ ZeroBlock
  <2>0. pc = "zero"
    BY <1>6 DEF ZeroByte, ZeroBlock
  <2>1. PICK k \in Nat \ {0} : Zeroes(k) /\ k <= z
    <3>1. z \in Nat
      BY <1>4, <2>0
    <3> QED BY <1>6, <3>1, LoaderAssumption DEF ZeroByte, ZeroBlock
  <2>2. /\ pc' = "zero" /\ commands' = commands
        /\ regs' = [regs EXCEPT !.dst = @ + k, !.zerosz = @ - k]
    BY <2>0, <2>1 DEF Zeroes
  <2>3. /\ regs'.a3 = regs.a3 /\ regs'.dst = d + k /\ regs'.copysz = x /\ regs'.zerosz = z - k
    BY <1>4, <2>0, <2>2 DEF Registers
  <2>4. regs.a3 - 1 \in 1..n
    BY <1>4, <2>0
  <2> DEFINE cd == cur.dst
             cx == cur.copysz
             cz == cur.zerosz
  <2>5. /\ d + x + z = cd + cx + cz /\ cd <= d /\ z <= cz /\ x = 0
        /\ cd \in Nat /\ cx \in Nat /\ cz \in Nat /\ d \in Nat /\ x \in Nat /\ z \in Nat
    BY <1>4, <2>0
  <2>6. (d + k) + x + (z - k) = cd + cx + cz /\ cd <= d + k /\ z - k <= cz
    <3> HIDE DEF d, x, z, cd, cx, cz
    <3> QED BY <2>1, <2>5
  <2>7. commands'[regs'.a3 - 1] = cur
    BY <2>2, <2>3
  <2> HIDE DEF cur, d, x, z, n
  <2> QED BY <2>2, <2>3, <2>4, <2>5, <2>6, <2>7 DEF Running, n
<1>7. CASE UNCHANGED vars
  BY <1>7 DEF vars, Running
<1>8. \/ pc' \notin {"copy", "zero", "image"} \/ LoadCommand \/ CopyDone \/ Jump
      \/ CopyByte \/ CopyBlock \/ ZeroByte \/ ZeroBlock \/ UNCHANGED vars
  BY DEF Next, Boot, prvShellCommandBoot, ReceiveFails, Receive, prvLoadAndBoot, NotElf,
         ElfHeader, SkipHeader, SegmentOut, AddCommand, NextFile, NoEntry, CopyTrampoline,
         ZeroDone, Returns, Clobbered
<1>9. CASE pc' \notin {"copy", "zero", "image"}
  BY <1>9 DEF Running
<1> QED BY <1>1, <1>2, <1>3, <1>5, <1>6, <1>7, <1>8, <1>9

\* The addresses of an image lie below the list and the staging area
LEMMA ImageAddr ==
    ASSUME IInv, Counted, Started, NEW a \in Base..TrampAt(commands) - 1
    PROVE  a \in Addr /\ a \in Nat /\ a < Staging
<1> DEFINE t == TrampAt(commands)
<1>1. t \in Int /\ t <= Staging
  <2>1. Len(commands) <= 2 * MaxPhnum + 1
    BY DEF Counted
  <2> QED BY <2>1, ListIs, LoaderAssumption
<1>2. a \in Base..t - 1
  OBVIOUS
<1> HIDE DEF t
<1> QED BY <1>1, <1>2, AddrIs, LoaderAssumption

\* The next k bytes of the command that is carried out
LEMMA WritesContent ==
    ASSUME FilesWhole, IInv, Counted, Staged, ListComplete, Running,
           LoadedSoFar, pc \in {"copy", "zero"}, pc' = pc, commands' = commands,
           regs'.a3 = regs.a3, NEW k \in Nat, regs'.dst = regs.dst + k,
           \A a \in Addr : a \in regs.dst..regs.dst + k - 1 => mem'[a] = Content(regs.a3 - 1, a),
           \A a \in Addr : a \notin regs.dst..regs.dst + k - 1 => mem'[a] = mem[a],
           \A a \in Addr : a >= Staging => mem'[a] = mem[a]
    PROVE  LoadedSoFar'
<1> DEFINE J == 1..Len(commands) - 1
           cur == regs.a3 - 1
           d == regs.dst
<1>0. Started
  BY DEF Started
<1>1. /\ cur \in J /\ commands[cur].dst <= d /\ d \in Nat /\ cur \in Int /\ regs.a3 \in Int
      /\ cur = regs.a3 - 1
  <2>1. cur \in J /\ commands[cur].dst <= d
    BY DEF Running
  <2>2. regs \in Registers
    BY DEF IInv, LoaderTypeOK
  <2> QED BY <2>1, <2>2 DEF Registers
<1>2. \A j \in J : /\ j \in Int /\ commands[j].dst \in Nat /\ commands[j].copysz \in Nat
                   /\ commands[j].src \in Nat /\ Staging <= commands[j].src
                   /\ commands[j].src + commands[j].copysz <= AddrMod
  BY <1>0, CommandFacts
<1> SUFFICES ASSUME NEW a \in Base..TrampAt(commands) - 1 PROVE Written(a)'
  BY DEF LoadedSoFar
<1>3. a \in Addr /\ a \in Nat /\ a < Staging
  BY <1>0, ImageAddr
<1>4. End(cur) = d /\ End(cur)' = d + k
  BY DEF End
<1>5. \A j \in J : j # cur => End(j)' = End(j)
  BY DEF End
<1>6. ASSUME NEW j \in J, commands[j].dst <= a PROVE Content(j, a)' = Content(j, a)
  <2> DEFINE x == commands[j].src
             y == commands[j].dst
             z == commands[j].copysz
  <2>1. x \in Nat /\ y \in Nat /\ z \in Nat /\ Staging <= x /\ x + z <= AddrMod /\ y <= a
    BY <1>2, <1>6
  <2>2. CASE a - y < z
    <3> HIDE DEF x, y, z
    <3>1. x + (a - y) \in Addr /\ x + (a - y) >= Staging
      BY <1>3, <2>1, <2>2, AddrIs
    <3>2. mem'[x + (a - y)] = mem[x + (a - y)]
      BY <3>1
    <3> QED BY <2>2, <3>2 DEF Content, x, y, z
  <2>3. CASE ~(a - y < z)
    BY <2>3 DEF Content
  <2> QED BY <2>2, <2>3
<1>7. \A i \in J : i > cur => ~Reached(i, a)'
  <2> SUFFICES ASSUME NEW i \in J, i > cur PROVE ~Reached(i, a)'
    OBVIOUS
  <2>1. i \in Int /\ ~(i < regs.a3) /\ i # cur
    <3>1. i \in Int
      BY <1>2
    <3> HIDE DEF cur
    <3> QED BY <1>1, <3>1
  <2>2. End(i)' = commands[i].dst
    BY <2>1 DEF End
  <2> QED BY <1>2, <1>3, <2>2 DEF Reached
<1>8. CASE a \in d..d + k - 1
  <2>1. Reached(cur, a)' /\ commands[cur].dst <= a
    <3>1. commands[cur].dst \in Nat
      BY <1>1, <1>2
    <3>2. commands[cur].dst <= a /\ a < d + k
      <4> DEFINE y == commands[cur].dst
      <4>1. y \in Nat /\ y <= d
        BY <1>1, <3>1
      <4> HIDE DEF y, d, cur
      <4>2. y <= a /\ a < d + k
        BY <1>1, <1>3, <1>8, <4>1
      <4> QED BY <4>2 DEF y
    <3> QED BY <1>4, <3>2 DEF Reached
  <2>2. mem'[a] = Content(cur, a)'
    BY <1>1, <1>3, <1>6, <1>8, <2>1
  <2>3. \A i \in J : Reached(i, a)' => i <= cur
    <3> SUFFICES ASSUME NEW i \in J, Reached(i, a)' PROVE i <= cur
      OBVIOUS
    <3>1. ~(i > cur) /\ i \in Int
      BY <1>2, <1>7
    <3> HIDE DEF cur
    <3> QED BY <1>1, <3>1
  <2> QED BY <1>1, <2>1, <2>2, <2>3 DEF Written
<1>9. CASE a \notin d..d + k - 1
  <2>1. mem'[a] = mem[a]
    BY <1>3, <1>9
  <2>2. ASSUME NEW j \in J PROVE Reached(j, a)' <=> Reached(j, a)
    <3>1. CASE j = cur
      <4>1. a < d <=> a < d + k
        <5> HIDE DEF d, cur
        <5> QED BY <1>1, <1>3, <1>9
      <4> QED BY <1>4, <3>1, <4>1 DEF Reached
    <3>2. CASE j # cur
      BY <1>5, <3>2 DEF Reached
    <3> QED BY <3>1, <3>2
  <2>3. Written(a)
    BY <1>0 DEF LoadedSoFar
  <2>4. CASE mem[a] = Old /\ \A j \in J : ~Reached(j, a)
    BY <2>1, <2>2, <2>4 DEF Written
  <2>5. CASE \E j \in J : /\ Reached(j, a) /\ mem[a] = Content(j, a)
                          /\ \A i \in J : Reached(i, a) => i <= j
    <3>1. PICK j \in J : /\ Reached(j, a) /\ mem[a] = Content(j, a)
                         /\ \A i \in J : Reached(i, a) => i <= j
      BY <2>5
    <3>2. Content(j, a)' = Content(j, a)
      BY <1>6, <3>1 DEF Reached
    <3>3. Reached(j, a)' /\ mem'[a] = Content(j, a)' /\ \A i \in J : Reached(i, a)' => i <= j
      BY <2>1, <2>2, <3>1, <3>2
    <3> QED BY <3>3 DEF Written
  <2> QED BY <2>3, <2>4, <2>5 DEF Written
<1> QED BY <1>8, <1>9

\* A step that writes nothing and finishes no bytes
LEMMA NothingWritten ==
    ASSUME Started, LoadedSoFar, UNCHANGED <<commands, mem>>,
           \A j \in 1..Len(commands) - 1 : End(j)' = End(j)
    PROVE  LoadedSoFar'
<1> SUFFICES ASSUME NEW a \in Base..TrampAt(commands) - 1 PROVE Written(a)'
  BY DEF LoadedSoFar
<1>1. \A j \in 1..Len(commands) - 1 : /\ Reached(j, a)' <=> Reached(j, a)
                                      /\ Content(j, a)' = Content(j, a)
  BY DEF Reached, Content
<1>2. Written(a)
  BY DEF LoadedSoFar
<1> QED BY <1>1, <1>2 DEF Written

LEMMA LoadedStep ==
    ASSUME FilesWhole, IInv, Scratch, InPlace, [Next]_vars
    PROVE  LoadedSoFar'
<1> USE DEF InPlace
<1> DEFINE J == 1..Len(commands) - 1
<1>0. ASSUME Started
      PROVE  /\ regs \in Registers /\ regs.a3 \in Nat /\ Len(commands) \in Nat
             /\ regs.dst \in Nat /\ regs.src \in Nat /\ regs.copysz \in Nat /\ regs.zerosz \in Nat
  <2>1. regs \in Registers /\ Len(commands) \in Nat
    BY LenProperties DEF IInv, LoaderTypeOK
  <2>2. regs.copysz \in Nat /\ regs.zerosz \in Nat
    BY <2>1, AddrIs DEF Registers
  <2> QED BY <2>1, <2>2 DEF Registers
<1>1. CASE CopyTrampoline
  <2> DEFINE t == TrampAt(commands)
             l == ListAt(commands)
  <2>1. /\ pc = "phdr" /\ pc' = "next" /\ commands' = commands
        /\ regs' = [regs EXCEPT !.a3 = 1]
        /\ mem' = [a \in Addr |-> IF a \in t..t + TrampSize - 1 THEN Code
                                  ELSE IF a \in l..Staging - 1 THEN Listed ELSE mem[a]]
    BY <1>1 DEF CopyTrampoline
  <2>2. /\ t \in Int /\ l \in Int /\ t + TrampSize = l /\ l <= Staging /\ TrampSize \in Nat
        /\ Len(commands) \in Nat
    <3>1. Counted'
      BY CountedStep DEF Scratch
    <3>2. Len(commands) <= 2 * MaxPhnum + 1
      BY <2>1, <3>1 DEF Counted, Started
    <3> QED BY <2>1, <3>2, ListIs, LoaderAssumption, Looking
  <2>3. regs'.a3 = 1 /\ ~Started
    BY <2>1 DEF Started, IInv, LoaderTypeOK, Registers
  <2> SUFFICES ASSUME NEW a \in Base..t - 1 PROVE Written(a)'
    BY <2>1 DEF LoadedSoFar
  <2>4. a \in Addr /\ a < Staging /\ a \in Nat /\ a \notin t..t + TrampSize - 1 /\ a \notin l..Staging - 1
    <3> HIDE DEF t, l
    <3> QED BY <2>2, AddrIs, LoaderAssumption
  <2>5. mem'[a] = Old
    <3> HIDE DEF t, l
    <3>1. mem'[a] = mem[a]
      BY <2>1, <2>4
    <3> QED BY <2>1, <2>3, <2>4, <3>1 DEF Untouched
  <2>6. \A j \in J : ~Reached(j, a)'
    <3> SUFFICES ASSUME NEW j \in J PROVE ~Reached(j, a)'
      OBVIOUS
    <3>1. End(j)' = commands[j].dst
      <4>1. ~(j < 1)
        BY <2>2
      <4> QED BY <2>1, <2>3, <4>1 DEF End
    <3>2. commands[j].dst \in Nat
      <4>1. j \in 1..Len(commands) /\ commands \in Seq(load_command)
        BY <2>1, <2>2, Looking
      <4>2. commands[j] \in load_command
        BY <4>1, ElementOfSeq
      <4> QED BY <4>2, AddrIs DEF load_command
    <3> QED BY <2>1, <2>4, <3>1, <3>2 DEF Reached
  <2> QED BY <2>1, <2>5, <2>6 DEF Written
<1>2. CASE LoadCommand
  <2> DEFINE c == commands[regs.a3]
  <2>1. /\ pc = "next" /\ pc' = "copy" /\ UNCHANGED <<commands, mem>>
        /\ regs' = [a3 |-> regs.a3 + 1, src |-> c.src, dst |-> c.dst,
                    copysz |-> c.copysz, zerosz |-> c.zerosz]
    BY <1>2 DEF LoadCommand
  <2>2. Started
    BY <2>1 DEF Started
  <2>3. regs'.a3 = regs.a3 + 1 /\ regs'.dst = c.dst
    BY <2>1
  <2>4. ASSUME NEW j \in J PROVE End(j)' = End(j)
    <3>1. j \in Int /\ regs.a3 \in Int
      BY <1>0, <2>2
    <3>2. CASE j = regs.a3
      <4>1. j = regs'.a3 - 1 /\ ~(j < regs.a3)
        BY <2>3, <3>1, <3>2
      <4> QED BY <2>1, <2>3, <3>2, <4>1 DEF End
    <3>3. CASE j # regs.a3
      <4>1. j # regs'.a3 - 1 /\ (j < regs'.a3 <=> j < regs.a3)
        BY <2>3, <3>1, <3>3
      <4> QED BY <2>1, <4>1 DEF End
    <3> QED BY <3>2, <3>3
  <2> QED BY <2>1, <2>2, <2>4, NothingWritten
<1>3. CASE CopyDone \/ Jump \/ (Started /\ UNCHANGED vars)
  <2>1. /\ Started /\ UNCHANGED <<commands, mem, regs>>
        /\ pc' \in {"copy", "zero"} <=> pc \in {"copy", "zero"}
    BY <1>3 DEF CopyDone, Jump, vars, Started
  <2>2. \A j \in J : End(j)' = End(j)
    BY <2>1 DEF End
  <2> QED BY <2>1, <2>2, NothingWritten
<1>4. CASE ZeroDone
  <2>1. /\ pc = "zero" /\ regs.zerosz = 0 /\ pc' = "next" /\ UNCHANGED <<commands, mem, regs>>
    BY <1>4 DEF ZeroDone
  <2>2. Started
    BY <2>1 DEF Started
  <2> DEFINE cur == regs.a3 - 1
             c == commands[cur]
  <2>3. /\ cur \in J /\ regs.dst = c.dst + c.copysz + c.zerosz
    <3> DEFINE d == regs.dst
    <3>1. cur \in J /\ d + 0 + 0 = c.dst + c.copysz + c.zerosz
      BY <2>1 DEF Running
    <3>2. d \in Nat
      BY <1>0, <2>2
    <3>3. d + 0 + 0 = d
      <4> HIDE DEF d
      <4> QED BY <3>2
    <3> QED BY <3>1, <3>3
  <2>4. ASSUME NEW j \in J PROVE End(j)' = End(j)
    <3>1. CASE j = cur
      <4>1. j < regs.a3
        BY <1>0, <2>2, <3>1
      <4> QED BY <2>1, <2>3, <3>1, <4>1 DEF End
    <3>2. CASE j # cur
      BY <2>1, <3>2 DEF End
    <3> QED BY <3>1, <3>2
  <2> QED BY <2>1, <2>2, <2>4, NothingWritten
<1> DEFINE cur == regs.a3 - 1
           c == commands[cur]
           d == regs.dst
           x == regs.copysz
           z == regs.zerosz
           e == regs.src
           cs == c.src
           cd == c.dst
           cx == c.copysz
           cz == c.zerosz
<1>5. ASSUME pc \in {"copy", "zero"}
      PROVE  /\ cur \in J /\ d + x + z = cd + cx + cz /\ cd <= d /\ z <= cz
             /\ cs \in Nat /\ cd \in Nat /\ cx \in Nat /\ cz \in Nat
             /\ d \in Nat /\ x \in Nat /\ z \in Nat /\ e \in Nat /\ regs \in Registers
             /\ pc = "copy" => z = cz /\ e - cs = d - cd
             /\ pc = "zero" => x = 0
             /\ \A a \in Addr : a >= Staging => mem'[a] = mem[a]
  <2>1. Started
    BY <1>5 DEF Started
  <2>2. cur \in J
    BY <1>5 DEF Running
  <2>3. ~Receive /\ ~Returns
    <3>1. pc' # "shell"
      BY <1>5 DEF Next, Boot, vars, prvShellCommandBoot, ReceiveFails, Receive, prvLoadAndBoot,
            NotElf, ElfHeader, SkipHeader, SegmentOut, AddCommand, NextFile, NoEntry,
            CopyTrampoline, LoadCommand, CopyByte, CopyBlock, CopyDone, ZeroByte, ZeroBlock,
            ZeroDone, Jump, Copies, Zeroes, Clobbered
    <3> QED BY <1>5, <3>1 DEF Receive, Returns
  <2>4. \A a \in Addr : a >= Staging => mem'[a] = mem[a]
    BY <2>3, EndsIs, KeptAbove
  <2> QED BY <1>0, <1>5, <2>1, <2>2, <2>4, CommandFacts DEF Running
<1>6. CASE CopyByte \/ CopyBlock
  <2>0. pc = "copy"
    BY <1>6 DEF CopyByte, CopyBlock
  <2>1. PICK k \in Nat \ {0} : Copies(k) /\ k <= x
    <3>1. x \in Nat
      BY <1>5, <2>0
    <3> QED BY <1>6, <3>1, LoaderAssumption DEF CopyByte, CopyBlock
  <2>2. /\ pc' = pc /\ commands' = commands
        /\ regs' = [regs EXCEPT !.src = @ + k, !.dst = @ + k, !.copysz = @ - k]
        /\ mem' = [a \in Addr |-> IF a \in d..d + k - 1 THEN mem[e + (a - d)] ELSE mem[a]]
    BY <2>1 DEF Copies
  <2>3. regs'.a3 = regs.a3 /\ regs'.dst = d + k
    BY <1>5, <2>0, <2>2 DEF Registers
  <2>4. ASSUME NEW a \in Addr, a \in d..d + k - 1 PROVE mem'[a] = Content(cur, a)
    <3>1. /\ d + x + z = cd + cx + cz /\ z = cz /\ e - cs = d - cd
          /\ cs \in Nat /\ cd \in Nat /\ cx \in Nat /\ cz \in Nat
          /\ d \in Nat /\ x \in Nat /\ z \in Nat /\ e \in Nat
      BY <1>5, <2>0
    <3>2. mem'[a] = mem[e + (a - d)]
      BY <2>2, <2>4
    <3>3. e + (a - d) = cs + (a - cd) /\ a - cd < cx
      <4> HIDE DEF d, x, z, e, cs, cd, cx, cz
      <4> QED BY <2>1, <2>4, <3>1, AddrIs
    <3> HIDE DEF d, x, z, e, cur
    <3> QED BY <3>2, <3>3 DEF Content
  <2>5. \A a \in Addr : a \notin d..d + k - 1 => mem'[a] = mem[a]
    BY <2>2
  <2>6. \A a \in Addr : a >= Staging => mem'[a] = mem[a]
    BY <1>5, <2>0
  <2> QED BY <2>0, <2>1, <2>2, <2>3, <2>4, <2>5, <2>6, WritesContent DEF Scratch
<1>7. CASE ZeroByte \/ ZeroBlock
  <2>0. pc = "zero"
    BY <1>7 DEF ZeroByte, ZeroBlock
  <2>1. PICK k \in Nat \ {0} : Zeroes(k) /\ k <= z
    <3>1. z \in Nat
      BY <1>5, <2>0
    <3> QED BY <1>7, <3>1, LoaderAssumption DEF ZeroByte, ZeroBlock
  <2>2. /\ pc' = pc /\ commands' = commands
        /\ regs' = [regs EXCEPT !.dst = @ + k, !.zerosz = @ - k]
        /\ mem' = [a \in Addr |-> IF a \in d..d + k - 1 THEN Zero ELSE mem[a]]
    BY <2>1 DEF Zeroes
  <2>3. regs'.a3 = regs.a3 /\ regs'.dst = d + k
    BY <1>5, <2>0, <2>2 DEF Registers
  <2>4. ASSUME NEW a \in Addr, a \in d..d + k - 1 PROVE mem'[a] = Content(cur, a)
    <3>1. /\ d + x + z = cd + cx + cz /\ z <= cz /\ x = 0
          /\ cd \in Nat /\ cx \in Nat /\ cz \in Nat /\ d \in Nat /\ x \in Nat /\ z \in Nat
      BY <1>5, <2>0
    <3>2. mem'[a] = Zero
      BY <2>2, <2>4
    <3>3. ~(a - cd < cx)
      <4> HIDE DEF d, x, z, e, cs, cd, cx, cz
      <4> QED BY <2>1, <2>4, <3>1, AddrIs
    <3> HIDE DEF d, x, z, e, cur
    <3> QED BY <3>2, <3>3 DEF Content
  <2>5. \A a \in Addr : a \notin d..d + k - 1 => mem'[a] = mem[a]
    BY <2>2
  <2>6. \A a \in Addr : a >= Staging => mem'[a] = mem[a]
    BY <1>5, <2>0
  <2> QED BY <2>0, <2>1, <2>2, <2>3, <2>4, <2>5, <2>6, WritesContent DEF Scratch
<1>8. CASE ~Started'
  BY <1>8 DEF LoadedSoFar
<1>9. \/ ~Started' \/ CopyTrampoline \/ LoadCommand \/ CopyDone \/ Jump \/ (Started /\ UNCHANGED vars)
      \/ ZeroDone \/ CopyByte \/ CopyBlock \/ ZeroByte \/ ZeroBlock
  BY DEF Started, Next, Boot, vars, prvShellCommandBoot, ReceiveFails, Receive, prvLoadAndBoot,
         NotElf, ElfHeader, SkipHeader, SegmentOut, AddCommand, NextFile, NoEntry, Returns, Clobbered
<1> QED BY <1>1, <1>2, <1>3, <1>4, <1>6, <1>7, <1>8, <1>9

LEMMA InPlaceStep ==
    ASSUME FilesWhole, IInv, Scratch, InPlace, [Next]_vars
    PROVE  InPlace'
<1>1. Staged' /\ Untouched' /\ ListComplete' /\ Running'
  BY EndsIs, StagedStep, UntouchedStep, ListCompleteStep, RunningStep DEF InPlace
<1>2. LoadedSoFar'
  BY LoadedStep
<1> QED BY <1>1, <1>2 DEF InPlace

\* An address and a command that is carried out, as what its segment wants
LEMMA SegmentWanted ==
    ASSUME FilesWhole, IInv, Staged, Started, pc = "image",
           NEW j \in 1..Len(commands) - 1, regs.a3 = Len(commands), Len(commands) \in Nat,
           NEW s \in Segments, CommandOf(commands[j], s, files, bufs), NEW a \in Nat
    PROVE  /\ Reached(j, a) <=> Covers(s, a)
           /\ Covers(s, a) => Content(j, a) = Wanted(s, a)
<1> DEFINE p == Seg(s)
           f == s[1]
           b == bufs[f]
           x == files[f].size
           c == commands[j]
<1>1. c = Command(p, b) /\ ~OutOfBounds(p)
  BY DEF CommandOf, Seg
<1>2. /\ p \in Elf_Phdr /\ b \in Nat /\ x \in Nat
      /\ p.p_offset + p.p_filesz <= x /\ p.p_filesz <= p.p_memsz
      /\ \A o \in 0..x - 1 : mem[b + o] = <<f, o>>
  BY <1>1, SegmentFacts
<1> DEFINE off == p.p_offset
           dst == p.p_paddr
           cpy == p.p_filesz
           all == p.p_memsz
<1> HIDE DEF p, b, x, c
<1>3. /\ c.src = b + off /\ c.dst = dst /\ c.copysz = cpy /\ c.copysz + c.zerosz = all
      /\ c.zerosz \in Nat /\ off \in Nat /\ dst \in Nat /\ cpy \in Nat /\ all \in Nat
  BY <1>1, <1>2, CommandFields
<1>4. off + cpy <= x /\ cpy <= all
  BY <1>2
<1>5. End(j) = c.dst + c.copysz + c.zerosz
  BY DEF End, c
<1>6. Reached(j, a) <=> (dst <= a /\ a < End(j))
  BY <1>3 DEF Reached, c
<1>7. Covers(s, a) <=> a \in dst..dst + all - 1
  BY DEF Covers, p
<1>8. Wanted(s, a) = IF a - dst < cpy THEN <<f, off + (a - dst)>> ELSE Zero
  BY DEF Wanted, p
<1>9. Content(j, a) = IF a - dst < cpy THEN mem[(b + off) + (a - dst)] ELSE Zero
  BY <1>3 DEF Content, c
<1> HIDE DEF off, dst, cpy, all
<1>10. End(j) = dst + all
  <2> DEFINE z == c.zerosz
  <2>1. z \in Nat /\ cpy + z = all /\ End(j) = dst + cpy + z
    BY <1>3, <1>5
  <2> HIDE DEF z
  <2> QED BY <1>3, <2>1
<1>11. Reached(j, a) <=> Covers(s, a)
  BY <1>3, <1>6, <1>7, <1>10
<1>12. ASSUME Covers(s, a) PROVE Content(j, a) = Wanted(s, a)
  <2>1. CASE a - dst < cpy
    <3>1. off + (a - dst) \in 0..x - 1 /\ (b + off) + (a - dst) = b + (off + (a - dst))
      BY <1>2, <1>3, <1>4, <1>7, <1>12, <2>1
    <3>2. mem[b + (off + (a - dst))] = <<f, off + (a - dst)>>
      BY <1>2, <3>1
    <3> QED BY <1>8, <1>9, <2>1, <3>1, <3>2
  <2>2. CASE ~(a - dst < cpy)
    BY <1>8, <1>9, <2>2
  <2> QED BY <2>1, <2>2
<1> QED BY <1>11, <1>12

LEMMA LoadedAtEnd ==
    ASSUME FilesWhole, IInv, Scratch, InPlace
    PROVE  Loaded
<1> SUFFICES ASSUME pc = "image", NEW a \in Base..TrampAt(commands) - 1
             PROVE  LET S == {s \in Segments : Covers(s, a)} IN
                    \/ S = {} /\ mem[a] = Old
                    \/ \E s \in S : mem[a] = Wanted(s, a) /\ \A t \in S \ {s} : Before(t, s)
  BY DEF Loaded
<1> DEFINE S == {s \in Segments : Covers(s, a)}
           J == 1..Len(commands) - 1
<1>1. Started /\ Staged /\ regs.a3 = Len(commands) /\ Len(commands) \in Nat
  BY LenProperties DEF Started, InPlace, Running, IInv, LoaderTypeOK
<1>2. a \in Nat
  BY <1>1, ImageAddr DEF Scratch
<1>3. PICK seg \in [J -> Segments] : Matches(commands, seg, Segments, files, bufs)
  BY <1>1 DEF InPlace, ListComplete, Listing
<1>4. \A j \in J : seg[j] \in Segments /\ CommandOf(commands[j], seg[j], files, bufs)
  BY <1>3 DEF Matches
<1>5. \A s \in Segments : \E j \in J : seg[j] = s
  BY <1>3 DEF Matches
<1>6. \A i, j \in J : i < j => Before(seg[i], seg[j])
  BY <1>3 DEF Matches
<1>7. \A j \in J : /\ Reached(j, a) <=> Covers(seg[j], a)
                   /\ Covers(seg[j], a) => Content(j, a) = Wanted(seg[j], a)
  BY <1>1, <1>2, <1>4, SegmentWanted
<1>8. Written(a)
  BY <1>1 DEF InPlace, LoadedSoFar
<1>9. CASE mem[a] = Old /\ \A j \in J : ~Reached(j, a)
  <2>1. S = {}
    BY <1>5, <1>7, <1>9
  <2> QED BY <1>9, <2>1
<1>10. CASE \E j \in J : /\ Reached(j, a) /\ mem[a] = Content(j, a)
                         /\ \A i \in J : Reached(i, a) => i <= j
  <2>1. PICK j \in J : /\ Reached(j, a) /\ mem[a] = Content(j, a)
                       /\ \A i \in J : Reached(i, a) => i <= j
    BY <1>10
  <2>2. seg[j] \in S /\ mem[a] = Wanted(seg[j], a)
    BY <1>4, <1>7, <2>1
  <2>3. ASSUME NEW t \in S, t # seg[j] PROVE Before(t, seg[j])
    <3>1. PICK i \in J : seg[i] = t
      BY <1>5
    <3>2. i <= j /\ i # j
      BY <1>7, <2>1, <2>3, <3>1
    <3>3. i < j
      BY <1>1, <3>2
    <3> QED BY <1>6, <3>1, <3>3
  <2> HIDE DEF S
  <2>4. \E s \in S : mem[a] = Wanted(s, a) /\ \A t \in S \ {s} : Before(t, s)
    BY <2>2, <2>3
  <2> QED BY <2>4 DEF S
<1> QED BY <1>8, <1>9, <1>10 DEF Written

\* When the image is started, every byte of every segment is in memory, the
\* last segment to cover an address having the say, and nothing else was
\* written below the trampoline, for all well-formed files that fit in memory,
\* all headers and alignments, and also if segments reach into the scratch
\* area, as long as the trampoline gets to the jump.
THEOREM ImageLoaded == ASSUME FilesWhole PROVE Spec => []Loaded
<1>1. Init => IInv /\ Scratch /\ InPlace
  <2> SUFFICES ASSUME Init PROVE Scratch /\ InPlace
    BY Start
  <2>1. pc = "shell" /\ Len(bufs) = 0 /\ mem = [a \in Addr |-> Old]
    BY EmptySeq DEF Init
  <2>2. Scratch
    BY <2>1 DEF Scratch, Counted, WritesWithin, Kept, Started, InTrampoline
  <2>3. InPlace
    BY <2>1 DEF InPlace, Staged, Untouched, ListComplete, Running, LoadedSoFar, Started
  <2> QED BY <2>2, <2>3
<1>2. IInv /\ Scratch /\ InPlace /\ [Next]_vars => (IInv /\ Scratch /\ InPlace)'
  BY Step, ScratchStep, InPlaceStep
<1>3. IInv /\ Scratch /\ InPlace => Loaded
  BY LoadedAtEnd
<1> QED BY <1>1, <1>2, <1>3, PTL DEF Spec
=============================================================================
