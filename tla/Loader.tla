------------------------------- MODULE Loader -------------------------------
(***************************************************************************)
(* The boot command of the network boot loader, demo/main_netboot.c and    *)
(* demo/netboot.S: files are received one after the other from             *)
(* STAGING_ADDR upwards, their ELF headers are turned into a list of load  *)
(* commands that grows downwards from STAGING_ADDR, and a trampoline       *)
(* copied below the list carries the commands out and jumps to the image.  *)
(*                                                                         *)
(* Addresses and sizes are integers modulo AddrMod.  A byte of memory is   *)
(* known by where it came from.  prvTftpReceive is the subject of Tftp:    *)
(* here it fails or stages the whole file.                                 *)
(***************************************************************************)
EXTENDS Integers, Sequences

CONSTANTS
    Base,      \* 0x80000000, where the memory starts
    Staging,   \* STAGING_ADDR
    AddrMod,   \* 2 to the power of __riscv_xlen
    CmdSize,   \* sizeof(struct load_command)
    TrampSize, \* the size of the trampoline
    Align,     \* STAGING_BUFS_ALIGN
    Word,      \* __riscv_xlen / 8
    MaxPhnum,  \* the largest e_phnum, an Elf_Half
    Images     \* the files the server has

MaxFiles == 2   \* ARRAY_SIZE(bufs)

\* A file: the fields of its ELF header that are not what the loader wants,
\* its size, its entry point and its program headers
HeaderFields == {"mag0", "mag1", "mag2", "mag3", "class", "data", "version", "type",
                 "machine", "phentsize"}

Addr == 0..AddrMod - 1

\* A program header: load is p_type = PT_LOAD
Elf_Phdr == [load : BOOLEAN, p_offset : Addr, p_paddr : Addr, p_vaddr : Addr,
             p_filesz : Addr, p_memsz : Addr]

ASSUME LoaderAssumption ==
    /\ Base \in Nat /\ Staging \in Nat /\ AddrMod \in Nat
    /\ 0 < Base /\ Base < Staging /\ Staging < AddrMod
    /\ CmdSize \in Nat \ {0} /\ TrampSize \in Nat \ {0}
    /\ Align \in Nat \ {0} /\ Word \in Nat \ {0}
    /\ \A f \in Images : /\ f.wrong \subseteq HeaderFields
                         /\ f.size \in Nat /\ f.e_entry \in Addr
                         /\ f.phdrs \in Seq(Elf_Phdr)

\* There is room for the commands of two files below STAGING_ADDR
ASSUME RoomAssumption ==
    /\ MaxPhnum \in Nat
    /\ \A f \in Images : Len(f.phdrs) <= MaxPhnum
    /\ Base + TrampSize + CmdSize * (MaxFiles * MaxPhnum + 1) <= Staging

\* A byte is <<i, o>>, the one at offset o of the i-th file, or one of these
Old    == <<0, 0>>   \* not written by the loader
Zero   == <<0, 1>>
Code   == <<0, 2>>   \* of the trampoline
Listed == <<0, 3>>   \* of a load command

VARIABLES
    pc,        \* where the command is; "shell" outside
    files,     \* the files to boot, from the arguments
    bufs,      \* where each one received so far is staged
    staging,   \* where the next one goes
    at,        \* the file and the program header that is looked at
    commands,  \* the list of load commands, its lowest address first
    entry,     \* the entry point found, 0 if none
    regs,      \* a3 as an index of the list, and t0 to t3
    mem        \* the memory

vars == <<pc, files, bufs, staging, at, commands, entry, regs, mem>>

NullCommand == [src |-> 0, dst |-> 0, copysz |-> 0, zerosz |-> 0]

Init ==
    /\ pc = "shell" /\ files = <<>> /\ bufs = <<>> /\ staging = Staging
    /\ at = [file |-> 0, phdr |-> 0]
    /\ commands = <<>> /\ entry = 0
    /\ regs = [a3 |-> 1, src |-> 0, dst |-> 0, copysz |-> 0, zerosz |-> 0]
    /\ mem = [a \in Addr |-> Old]

-----------------------------------------------------------------------------
(***************************************************************************)
(* prvShellCommandBoot.                                                    *)
(***************************************************************************)
\* Back to the shell: nothing of the command is used again, and what it left
\* in memory is old
Returns ==
    /\ pc' = "shell" /\ files' = <<>> /\ bufs' = <<>> /\ staging' = Staging
    /\ at' = [file |-> 0, phdr |-> 0]
    /\ commands' = <<>> /\ entry' = 0
    /\ mem' = [a \in Addr |-> Old]
    /\ UNCHANGED regs

\* boot [-h] [-p <port>] <host> <file> [file]: a wrong number of files is
\* refused, and port and halt flag make no difference here
prvShellCommandBoot ==
    /\ pc = "shell"
    /\ \E n \in 1..MaxFiles : files' \in [1..n -> Images]
    /\ pc' = "receive"
    /\ UNCHANGED <<bufs, staging, at, commands, entry, regs, mem>>

ReceiveFails ==
    /\ pc = "receive" /\ Len(bufs) < Len(files)
    /\ Returns

\* size + (-size % STAGING_BUFS_ALIGN)
Rounded(size) == size + ((-size) % Align)

Receive ==
    LET i == Len(bufs) + 1 IN
    /\ pc = "receive" /\ i <= Len(files)
    /\ mem' = [a \in Addr |-> IF a \in staging .. staging + files[i].size - 1
                                THEN <<i, a - staging>> ELSE mem[a]]
    /\ bufs' = Append(bufs, staging)
    /\ staging' = staging + Rounded(files[i].size)
    /\ UNCHANGED <<pc, files, at, commands, entry, regs>>

-----------------------------------------------------------------------------
(***************************************************************************)
(* prvLoadAndBoot and prvGetLoadCommands: from the last header of the last *)
(* file to the first header of the first.                                  *)
(***************************************************************************)
\* The address of the list, which ends with a command without a source
ListAt(list) == Staging - CmdSize * Len(list)

prvLoadAndBoot ==
    /\ pc = "receive" /\ Len(bufs) = Len(files)
    /\ pc' = "elf"
    /\ at' = [file |-> Len(files), phdr |-> 0]
    /\ commands' = <<NullCommand>>
    /\ UNCHANGED <<files, bufs, staging, entry, regs, mem>>

\* ELFMAG3 is not looked at: the third byte is compared twice
WrongHeader(f) == f.wrong \cap (HeaderFields \ {"mag3"}) # {}

ElfHeader ==
    /\ pc = "elf" /\ ~WrongHeader(files[at.file])
    /\ pc' = "phdr"
    /\ at' = [at EXCEPT !.phdr = Len(files[at.file].phdrs)]
    /\ entry' = 0
    /\ UNCHANGED <<files, bufs, staging, commands, regs, mem>>

NotElf ==
    /\ pc = "elf" /\ WrongHeader(files[at.file])
    /\ Returns

Phdr == files[at.file].phdrs[at.phdr]

OutOfBounds(p) == p.p_paddr < Base \/ (p.p_paddr + p.p_memsz) % AddrMod > Staging

Command(p, buf) ==
    [src |-> buf + p.p_offset, dst |-> p.p_paddr,
     copysz |-> p.p_filesz, zerosz |-> (p.p_memsz - p.p_filesz) % AddrMod]

HoldsEntry(p, e) == p.p_vaddr <= e /\ e < p.p_vaddr + p.p_memsz

SkipHeader ==
    /\ pc = "phdr" /\ at.phdr > 0 /\ ~Phdr.load
    /\ at' = [at EXCEPT !.phdr = @ - 1]
    /\ UNCHANGED <<pc, files, bufs, staging, commands, entry, regs, mem>>

SegmentOut ==
    /\ pc = "phdr" /\ at.phdr > 0 /\ Phdr.load /\ OutOfBounds(Phdr)
    /\ Returns

\* Fault: the virtual address is taken for the physical one
EntryIn_Virtual(p, e) == e

\* The entry point, in the segment that was linked to hold it
EntryIn(p, e) == p.p_paddr + (e - p.p_vaddr)

\* Fault: the command is put at the end of the list
AddCommand_Last ==
    /\ pc = "phdr" /\ at.phdr > 0 /\ Phdr.load /\ ~OutOfBounds(Phdr)
    /\ commands' = SubSeq(commands, 1, Len(commands) - 1) \o
                   <<Command(Phdr, bufs[at.file]), NullCommand>>
    /\ at' = [at EXCEPT !.phdr = @ - 1]
    /\ entry' = IF HoldsEntry(Phdr, files[at.file].e_entry)
                  THEN EntryIn(Phdr, files[at.file].e_entry) ELSE entry
    /\ UNCHANGED <<pc, files, bufs, staging, regs, mem>>

AddCommand ==
    /\ pc = "phdr" /\ at.phdr > 0 /\ Phdr.load /\ ~OutOfBounds(Phdr)
    /\ commands' = <<Command(Phdr, bufs[at.file])>> \o commands
    /\ at' = [at EXCEPT !.phdr = @ - 1]
    /\ entry' = IF HoldsEntry(Phdr, files[at.file].e_entry)
                  THEN EntryIn(Phdr, files[at.file].e_entry) ELSE entry
    /\ UNCHANGED <<pc, files, bufs, staging, regs, mem>>

NextFile ==
    /\ pc = "phdr" /\ at.phdr = 0 /\ at.file > 1
    /\ pc' = "elf"
    /\ at' = [at EXCEPT !.file = @ - 1]
    /\ UNCHANGED <<files, bufs, staging, commands, entry, regs, mem>>

\* Only the first file needs an entry point
NoEntry ==
    /\ pc = "phdr" /\ at = [file |-> 1, phdr |-> 0] /\ entry = 0
    /\ Returns

\* Fault: the trampoline is put at a fixed place below the staging area
TrampAt_Fixed(list) == Staging - CmdSize - TrampSize

TrampAt(list) == ListAt(list) - TrampSize

\* The network is taken down, the trampoline copied below the list, and called
CopyTrampoline ==
    /\ pc = "phdr" /\ at = [file |-> 1, phdr |-> 0] /\ entry # 0
    /\ pc' = "next"
    /\ mem' = [a \in Addr |->
                 IF a \in TrampAt(commands) .. TrampAt(commands) + TrampSize - 1 THEN Code
                 ELSE IF a \in ListAt(commands) .. Staging - 1 THEN Listed ELSE mem[a]]
    /\ regs' = [regs EXCEPT !.a3 = 1]
    /\ UNCHANGED <<files, bufs, staging, at, commands, entry>>

-----------------------------------------------------------------------------
(***************************************************************************)
(* netboot_load_trampoline: one command after the other, by bytes until    *)
(* both pointers are aligned and for what is left over, by blocks between. *)
(***************************************************************************)
InTrampoline == pc \in {"next", "copy", "zero"}

CodeKept == \A a \in TrampAt(commands) .. TrampAt(commands) + TrampSize - 1 : mem[a] = Code

\* The list from its k-th command on
ListKept(k) == \A a \in ListAt(commands) + CmdSize * (k - 1) .. Staging - 1 : mem[a] = Listed

\* The trampoline or its list has been written over: what the hart executes
\* or takes for a command is unknown from then on
Clobbered ==
    /\ InTrampoline /\ ~(CodeKept /\ ListKept(regs.a3))
    /\ pc' = "lost"
    /\ UNCHANGED <<files, bufs, staging, at, commands, entry, regs, mem>>

LoadCommand ==
    LET c == commands[regs.a3] IN
    /\ pc = "next" /\ ListKept(regs.a3) /\ c.src # 0
    /\ pc' = "copy"
    /\ regs' = [a3 |-> regs.a3 + 1, src |-> c.src, dst |-> c.dst,
                copysz |-> c.copysz, zerosz |-> c.zerosz]
    /\ UNCHANGED <<files, bufs, staging, at, commands, entry, mem>>

\* Copy n bytes
Copies(n) ==
    /\ mem' = [a \in Addr |-> IF a \in regs.dst .. regs.dst + n - 1
                                THEN mem[regs.src + (a - regs.dst)] ELSE mem[a]]
    /\ regs' = [regs EXCEPT !.src = @ + n, !.dst = @ + n, !.copysz = @ - n]
    /\ UNCHANGED <<pc, files, bufs, staging, at, commands, entry>>

CopyAligned == regs.src % Word = 0 /\ regs.dst % Word = 0

CopyByte == pc = "copy" /\ regs.copysz > 0 /\ (~CopyAligned \/ regs.copysz < Word) /\ Copies(1)

CopyBlock == pc = "copy" /\ regs.copysz >= Word /\ CopyAligned /\ Copies(Word)

CopyDone ==
    /\ pc = "copy" /\ regs.copysz = 0
    /\ pc' = "zero"
    /\ UNCHANGED <<files, bufs, staging, at, commands, entry, regs, mem>>

Zeroes(n) ==
    /\ mem' = [a \in Addr |-> IF a \in regs.dst .. regs.dst + n - 1 THEN Zero ELSE mem[a]]
    /\ regs' = [regs EXCEPT !.dst = @ + n, !.zerosz = @ - n]
    /\ UNCHANGED <<pc, files, bufs, staging, at, commands, entry>>

ZeroAligned == regs.dst % Word = 0

ZeroByte == pc = "zero" /\ regs.zerosz > 0 /\ (~ZeroAligned \/ regs.zerosz < Word) /\ Zeroes(1)

\* Fault: blocks are zeroed as long as anything is left
ZeroBlock_Any == pc = "zero" /\ regs.zerosz > 0 /\ ZeroAligned /\ Zeroes(Word)

ZeroBlock == pc = "zero" /\ regs.zerosz >= Word /\ ZeroAligned /\ Zeroes(Word)

ZeroDone ==
    /\ pc = "zero" /\ regs.zerosz = 0
    /\ pc' = "next"
    /\ UNCHANGED <<files, bufs, staging, at, commands, entry, regs, mem>>

\* Jump to the next stage
Jump ==
    /\ pc = "next" /\ ListKept(regs.a3) /\ commands[regs.a3].src = 0
    /\ pc' = "image"
    /\ UNCHANGED <<files, bufs, staging, at, commands, entry, regs, mem>>

-----------------------------------------------------------------------------
Boot ==
    \/ ReceiveFails \/ Receive \/ prvLoadAndBoot \/ NotElf \/ ElfHeader
    \/ SkipHeader \/ SegmentOut \/ AddCommand \/ NextFile \/ NoEntry \/ CopyTrampoline
    \/ LoadCommand \/ CopyByte \/ CopyBlock \/ CopyDone
    \/ ZeroByte \/ ZeroBlock \/ ZeroDone \/ Jump \/ Clobbered

Next == prvShellCommandBoot \/ Boot

Spec == Init /\ [][Next]_vars

\* The shell task runs the command, and the trampoline runs with interrupts off
FairSpec == Spec /\ WF_vars(Boot)

-----------------------------------------------------------------------------
(***************************************************************************)
(* Properties.                                                             *)
(***************************************************************************)
\* The staging area, the list and the registers keep to their types: no
\* size ever becomes negative.
TypeOK ==
    /\ pc \in {"shell", "receive", "elf", "phdr", "next", "copy", "zero", "image", "lost"}
    /\ Len(bufs) <= MaxFiles
    /\ \A i \in DOMAIN bufs : bufs[i] \in Addr /\ bufs[i] % Align = Staging % Align
    /\ at.file \in 0..MaxFiles /\ at.phdr \in Nat
    /\ regs.copysz \in Addr /\ regs.zerosz \in Addr
    /\ DOMAIN mem = Addr

\* netboot.S: the trampoline is copied "to a scratch area and run from there
\* to avoid writing over itself", with its arguments "located in memory that
\* isn't about to be clobbered".
NotClobbered == InTrampoline => CodeKept /\ ListKept(regs.a3)

\* A command that writes where the trampoline and the list are, or above: line
\* 537 compares the end of a segment with STAGING_ADDR only
Reaches(c) == c.dst + c.copysz + c.zerosz > TrampAt(commands)

\* The trampoline's code and the commands it has still to read are in their
\* place, for lists of every length, until it carries out a command for a
\* segment that reaches into the scratch area: no other step, of the loader or
\* of an unaligned copy, disturbs them.
ScratchKept ==
    InTrampoline => \/ CodeKept /\ ListKept(regs.a3)
                    \/ \E k \in 1..regs.a3 - 1 : Reaches(commands[k])

\* The segments to load, in the order of the files and of their headers
Segments == UNION {{<<f, k>> : k \in {j \in 1..Len(files[f].phdrs) : files[f].phdrs[j].load}} :
                   f \in 1..Len(files)}
Seg(s) == files[s[1]].phdrs[s[2]]
Before(s, t) == s[1] < t[1] \/ (s[1] = t[1] /\ s[2] < t[2])
Covers(s, a) == a \in Seg(s).p_paddr .. Seg(s).p_paddr + Seg(s).p_memsz - 1
Wanted(s, a) == LET d == a - Seg(s).p_paddr IN
    IF d < Seg(s).p_filesz THEN <<s[1], Seg(s).p_offset + d>> ELSE Zero

\* When the image is started, every address of a segment holds the byte of
\* the file or the zero that the last segment to cover it wants, for every
\* alignment, whatever files were staged before, and nothing else was loaded
\* below the scratch area.
Loaded ==
    pc = "image" => \A a \in Base .. TrampAt(commands) - 1 :
        LET S == {s \in Segments : Covers(s, a)} IN
        \/ S = {} /\ mem[a] = Old
        \/ \E s \in S : mem[a] = Wanted(s, a) /\ \A t \in S \ {s} : Before(t, s)

\* The jump goes to the physical address of e_entry of the first file, in the
\* first of its segments that holds it, and never into another file.
Enters ==
    pc = "image" =>
        LET e == files[1].e_entry
            S == {s \in Segments : s[1] = 1 /\ HoldsEntry(Seg(s), e)} IN
        \E s \in S : /\ entry = Seg(s).p_paddr + (e - Seg(s).p_vaddr)
                     /\ \A t \in S \ {s} : Before(s, t)

\* The command comes back to the shell or starts the image, unless a segment
\* wrote over the trampoline.
Ends == pc = "receive" ~> pc \in {"shell", "image", "lost"}
=============================================================================
