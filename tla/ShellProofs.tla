---------------------------- MODULE ShellProofs ----------------------------
(***************************************************************************)
(* The line editor of the shell stays with the characters it was given,    *)
(* can always read on and runs the line that was typed, for every size of  *)
(* the buffer, every chunk and every sequence of keys.                     *)
(***************************************************************************)
EXTENDS Shell, SequenceTheorems, TLAPS

\* The characters the editor leaves behind it in a command
Plain == Printable \cup {"^X"}

\* Where the editor is in buf
At == len + i

ShellTypeOK ==
    /\ pc \in {"read", "edit"}
    /\ buf \in Seq(Keys) /\ Len(buf) <= BufSize - 1
    /\ len \in Nat /\ i \in Int /\ command \in Nat

\* Between chunks the buffer holds a part of a command
Between ==
    pc = "read" => /\ len = Len(buf) /\ i = 0 /\ command = 0
                   /\ len < BufSize - 1
                   /\ \A k \in 1..len : buf[k] \in Plain

\* The editor has gone through the command up to where it is.  A backspace
\* may take it back by one character into what was kept, which is none that
\* it edits: it cannot go back twice.
Inside ==
    pc = "edit" => /\ i >= -1 /\ command <= At /\ At <= Len(buf)
                   /\ \A k \in command + 1..At : buf[k] \in Plain
                   /\ i = -1 /\ At < Len(buf) => buf[At + 1] \in Plain

IInv == ShellTypeOK /\ Between /\ Inside

\* What the memmove leaves
LEMMA DeletedIs ==
    ASSUME buf \in Seq(Keys), At \in Nat, At < Len(buf), NEW d \in {1, 2}, d <= Len(buf)
    PROVE  /\ Deleted(d) \in Seq(Keys) /\ Len(Deleted(d)) = Len(buf) - d
           /\ \A k \in 1..At : k <= Len(buf) - d => Deleted(d)[k] = buf[k]
           /\ \A k \in At + 1..Len(buf) - d : Deleted(d)[k] = buf[k + d]
<1>1. /\ Len(buf) \in Nat /\ len + i = At /\ \A k \in 1..Len(buf) : buf[k] \in Keys
      /\ Len(buf) - d \in Nat
  BY LenProperties, ElementOfSeq DEF At
<1>2. Deleted(d) = [k \in 1..Len(buf) - d |-> IF k <= At THEN buf[k] ELSE buf[k + d]]
  <2>1. ASSUME NEW k \in 1..Len(buf) - d PROVE Holds(k + d) = buf[k + d]
    BY <1>1 DEF Holds
  <2> QED BY <1>1, <2>1 DEF Deleted
<1>3. ASSUME NEW k \in 1..Len(buf) - d
      PROVE  (IF k <= At THEN buf[k] ELSE buf[k + d]) \in Keys
  <2>1. k \in 1..Len(buf) /\ k + d \in 1..Len(buf)
    BY <1>1
  <2> QED BY <1>1, <2>1
<1> DEFINE m == Len(buf) - d
           f == [k \in 1..m |-> IF k <= At THEN buf[k] ELSE buf[k + d]]
<1>4. m \in Nat /\ f \in [1..m -> Keys]
  BY <1>1, <1>3
<1>5. f \in Seq(Keys) /\ Len(f) = m
  BY <1>4
<1>6. Deleted(d) = f
  BY <1>2
<1>7. \A k \in 1..m : f[k] = IF k <= At THEN buf[k] ELSE buf[k + d]
  OBVIOUS
<1> HIDE DEF f
<1> QED BY <1>1, <1>5, <1>6, <1>7

LEMMA ReadStep == ASSUME IInv, Read PROVE IInv'
<1>1. PICK chunk \in Chunks : Len(chunk) <= BufSize - 1 - len /\ buf' = buf \o chunk
  BY Zenon DEF Read
<1>2. pc = "read" /\ pc' = "edit" /\ i' = 0 /\ command' = 0 /\ len' = len
  BY Zenon DEF Read
<1>3. chunk \in Seq(Keys) /\ Len(chunk) \in Nat
  BY DEF Chunks
<1>4. /\ buf \in Seq(Keys) /\ len = Len(buf) /\ len \in Nat /\ BufSize \in Nat
      /\ \A k \in 1..len : buf[k] \in Plain
  BY <1>2, ShellAssumption DEF IInv, ShellTypeOK, Between
<1>5. /\ buf' \in Seq(Keys) /\ Len(buf') = len + Len(chunk)
      /\ \A k \in 1..len : buf'[k] = buf[k]
  <2>1. /\ buf \o chunk \in Seq(Keys) /\ Len(buf \o chunk) = Len(buf) + Len(chunk)
        /\ \A k \in 1..Len(buf) + Len(chunk) :
              (buf \o chunk)[k] = IF k <= Len(buf) THEN buf[k] ELSE chunk[k - Len(buf)]
    BY <1>3, <1>4, ConcatProperties
  <2> QED BY <1>1, <1>3, <1>4, <2>1
<1>6. ShellTypeOK'
  BY <1>1, <1>2, <1>3, <1>4, <1>5 DEF ShellTypeOK
<1>7. Inside'
  BY <1>2, <1>3, <1>4, <1>5 DEF Inside, At
<1> QED BY <1>2, <1>6, <1>7 DEF IInv, Between

\* What the editor knows of the character it looks at
LEMMA Seen ==
    ASSUME IInv, NEW key \in Keys, Sees(key)
    PROVE  /\ pc = "edit" /\ buf \in Seq(Keys) /\ Len(buf) \in Nat /\ len \in Nat /\ i \in Int
           /\ command \in Nat /\ At \in Nat /\ At < Len(buf) /\ buf[At + 1] = key /\ i >= -1
           /\ command <= At /\ Len(buf) <= BufSize - 1 /\ BufSize \in Nat
           /\ \A k \in command + 1..At : buf[k] \in Plain
           /\ key \notin Plain => i >= 0
<1>1. /\ pc = "edit" /\ i < Len(buf) - len /\ buf[len + i + 1] = key
  BY DEF Sees, n
<1>2. /\ buf \in Seq(Keys) /\ Len(buf) \in Nat /\ len \in Nat /\ i \in Int
      /\ command \in Nat /\ Len(buf) <= BufSize - 1
  BY LenProperties DEF IInv, ShellTypeOK
<1>3. /\ i >= -1 /\ command <= At /\ \A k \in command + 1..At : buf[k] \in Plain
      /\ i = -1 /\ At < Len(buf) => buf[At + 1] \in Plain
  BY <1>1 DEF IInv, Inside
<1> QED BY <1>1, <1>2, <1>3, ShellAssumption DEF At

LEMMA NewCommandStep ==
    ASSUME IInv, NEW key \in Keys, Sees(key), NewCommand, UNCHANGED <<pc, buf>>
    PROVE  IInv'
<1>1. /\ pc = "edit" /\ buf \in Seq(Keys) /\ Len(buf) \in Nat /\ At \in Nat /\ At < Len(buf)
      /\ Len(buf) <= BufSize - 1
  BY Seen
<1>2. len' = At + 1 /\ command' = At + 1 /\ i' = 0
  BY DEF NewCommand, At
<1> QED BY <1>1, <1>2 DEF IInv, ShellTypeOK, Between, Inside, At

\* A character that belongs to the command
LEMMA PassStep ==
    ASSUME IInv, NEW key \in Plain, Sees(key), i' = i + 1, UNCHANGED <<pc, buf, len, command>>
    PROVE  IInv'
<1>1. key \in Keys
  BY DEF Plain, Printable, Keys
<1>2. /\ pc = "edit" /\ buf \in Seq(Keys) /\ Len(buf) \in Nat /\ len \in Nat /\ i \in Int
      /\ command \in Nat /\ At \in Nat /\ At < Len(buf) /\ buf[At + 1] = key /\ i >= -1
      /\ command <= At /\ Len(buf) <= BufSize - 1
      /\ \A k \in command + 1..At : buf[k] \in Plain
  BY <1>1, Seen
<1>3. At' = At + 1
  BY <1>2 DEF At
<1>4. \A k \in command + 1..At + 1 : buf[k] \in Plain
  BY <1>2
<1> QED BY <1>2, <1>3, <1>4 DEF IInv, ShellTypeOK, Between, Inside

\* The memmove, after which the editor is where it was or one character back
LEMMA DeleteStep ==
    ASSUME IInv, NEW key \in Keys \ Plain, Sees(key), NEW d \in {1, 2},
           d = 2 => command # At,
           buf' = Deleted(d), i' = i - d + 1, UNCHANGED <<pc, len, command>>
    PROVE  IInv'
<1>1. /\ pc = "edit" /\ buf \in Seq(Keys) /\ Len(buf) \in Nat /\ len \in Nat /\ i \in Int
      /\ command \in Nat /\ At \in Nat /\ At < Len(buf) /\ i >= 0
      /\ command <= At /\ Len(buf) <= BufSize - 1 /\ BufSize \in Nat
      /\ \A k \in command + 1..At : buf[k] \in Plain
  BY Seen
<1>2. d <= Len(buf) /\ At' = At - d + 1 /\ command <= At' /\ At' \in Nat /\ At' <= Len(buf) - d
  BY <1>1 DEF At
<1>3. /\ buf' \in Seq(Keys) /\ Len(buf') = Len(buf) - d
      /\ \A k \in 1..At : k <= Len(buf) - d => buf'[k] = buf[k]
  BY <1>1, <1>2, DeletedIs
<1>4. ShellTypeOK'
  BY <1>1, <1>3 DEF ShellTypeOK
<1>5. ASSUME NEW k \in command + 1..At' PROVE buf'[k] \in Plain
  <2>1. k \in 1..At /\ k \in command + 1..At /\ k <= Len(buf) - d
    BY <1>1, <1>2
  <2> QED BY <1>1, <1>3, <2>1
<1>6. ASSUME i' = -1, At' < Len(buf') PROVE buf'[At' + 1] \in Plain
  <2>1. d = 2 /\ At' + 1 = At /\ At \in command + 1..At /\ At <= Len(buf) - d
    BY <1>1, <1>2, <1>3, <1>6
  <2>2. buf'[At] = buf[At] /\ buf[At] \in Plain
    BY <1>1, <1>3, <2>1
  <2> QED BY <2>1, <2>2
<1>7. i' >= -1 /\ At' <= Len(buf')
  BY <1>1, <1>2, <1>3
<1>8. Inside'
  BY <1>2, <1>5, <1>6, <1>7 DEF Inside
<1> QED BY <1>1, <1>4, <1>8 DEF IInv, Between

LEMMA EndStep == ASSUME IInv, EndOfChunk PROVE IInv'
<1>1. /\ pc = "edit" /\ i >= Len(buf) - len /\ pc' = "read" /\ i' = 0 /\ command' = 0
      /\ len' = Len(buf')
  BY DEF EndOfChunk, n
<1>2. /\ buf' = <<>> \/ (buf' = Kept /\ ~Full)
  BY DEF EndOfChunk
<1>3. /\ buf \in Seq(Keys) /\ Len(buf) \in Nat /\ len \in Nat /\ i \in Int /\ command \in Nat
      /\ Len(buf) <= BufSize - 1 /\ BufSize \in Nat /\ BufSize >= 2
  BY LenProperties, ShellAssumption DEF IInv, ShellTypeOK
<1>4. command <= Len(buf) /\ \A k \in command + 1..Len(buf) : buf[k] \in Plain
  BY <1>1, <1>3 DEF IInv, Inside, At
<1>5. CASE buf' = <<>>
  <2>1. buf' \in Seq(Keys) /\ len' = 0
    BY <1>1, <1>5, EmptySeq
  <2> QED BY <1>1, <1>3, <1>5, <2>1 DEF IInv, ShellTypeOK, Between, Inside
<1>6. CASE buf' = Kept /\ ~Full
  <2>1. \A k \in command + 1..Len(buf) : buf[k] \in Keys
    BY <1>3, ElementOfSeq
  <2>2. /\ buf' \in Seq(Keys)
        /\ Len(buf') = IF command + 1 <= Len(buf) THEN Len(buf) - (command + 1) + 1 ELSE 0
        /\ \A k \in 1..Len(buf) - (command + 1) + 1 : buf'[k] = buf[(command + 1) + k - 1]
    <3> DEFINE m == command + 1
               top == Len(buf)
    <3>1. m \in Int /\ top \in Int /\ \A k \in m..top : buf[k] \in Keys
      BY <1>3, <2>1
    <3>2. buf' = SubSeq(buf, m, top)
      BY <1>6 DEF Kept
    <3> HIDE DEF m, top
    <3>3. /\ buf' \in Seq(Keys) /\ Len(buf') = IF m <= top THEN top - m + 1 ELSE 0
          /\ \A k \in 1..top - m + 1 : buf'[k] = buf[m + k - 1]
      BY <3>1, <3>2, SubSeqProperties
    <3> QED BY <3>3, Zenon DEF m, top
  <2>3. Len(buf') = Len(buf) - command /\ Len(buf') < BufSize - 1
    <3>1. Len(buf') = Len(buf) - command
      BY <1>3, <1>4, <2>2
    <3>2. command # 0 \/ Len(buf) # BufSize - 1
      BY <1>6 DEF Full
    <3> QED BY <1>3, <1>4, <3>1, <3>2
  <2>4. ASSUME NEW k \in 1..Len(buf') PROVE buf'[k] \in Plain
    <3>1. /\ k \in 1..Len(buf) - (command + 1) + 1 /\ (command + 1) + k - 1 = command + k
          /\ command + k \in command + 1..Len(buf)
      BY <1>3, <1>4, <2>3
    <3>2. buf'[k] = buf[command + k]
      BY <2>2, <3>1
    <3> QED BY <1>4, <3>1, <3>2
  <2>5. ShellTypeOK'
    BY <1>1, <1>3, <1>4, <2>2, <2>3 DEF ShellTypeOK
  <2> QED BY <1>1, <2>3, <2>4, <2>5 DEF IInv, Between, Inside
<1> QED BY <1>2, <1>5, <1>6

LEMMA Step == ASSUME IInv, [Next]_vars PROVE IInv'
<1>1. CASE Read
  BY <1>1, ReadStep
<1>2. CASE CtrlC \/ CarriageReturn
  <2>1. PICK key \in Keys : Sees(key)
    BY <1>2 DEF CtrlC, CarriageReturn, Keys
  <2>2. NewCommand /\ UNCHANGED <<pc, buf>>
    BY <1>2 DEF CtrlC, CarriageReturn
  <2> QED BY <2>1, <2>2, NewCommandStep
<1>3. CASE Backspace
  <2>1. /\ Sees("BS") /\ "BS" \in Keys \ Plain
        /\ buf' = Deleted(BackspaceDeletes) /\ i' = i - BackspaceDeletes + 1
        /\ UNCHANGED <<pc, len, command>>
    BY <1>3 DEF Backspace, Keys, Plain, Printable
  <2>2. BackspaceDeletes \in {1, 2} /\ (BackspaceDeletes = 2 => command # At)
    BY DEF BackspaceDeletes, At
  <2> QED BY <2>1, <2>2, DeleteStep
<1>4. CASE Delete
  <2>1. /\ Sees("DEL") /\ "DEL" \in Keys \ Plain /\ buf' = Deleted(1) /\ i' = i
        /\ UNCHANGED <<pc, len, command>>
    BY <1>4 DEF Delete, Keys, Plain, Printable
  <2>2. i' = i - 1 + 1
    BY <2>1 DEF IInv, ShellTypeOK
  <2> QED BY <2>1, <2>2, DeleteStep
<1>5. CASE Unsupported \/ Echo
  <2>1. PICK key \in Plain : Sees(key)
    BY <1>5 DEF Unsupported, Echo, Plain
  <2>2. i' = i + 1 /\ UNCHANGED <<pc, buf, len, command>>
    BY <1>5 DEF Unsupported, Echo
  <2> QED BY <2>1, <2>2, PassStep
<1>6. CASE EndOfChunk
  BY <1>6, EndStep
<1>7. CASE UNCHANGED vars
  BY <1>7 DEF vars, IInv, ShellTypeOK, Between, Inside, At
<1> QED BY <1>1, <1>2, <1>3, <1>4, <1>5, <1>6, <1>7 DEF Next, Edit

LEMMA Start == ASSUME Init PROVE IInv
BY EmptySeq, ShellAssumption DEF Init, IInv, ShellTypeOK, Between, Inside

\* Whatever is typed, in chunks of any size, prvShellTask looks at and edits
\* only what it has read into buf and leaves room for the NUL, also where a
\* backspace takes it back into an earlier chunk; a deletion reads at most the
\* one character that follows buf, and nothing of it gets into the line.
THEOREM StaysInBuffer == Spec => []InBuffer
<1>1. Init => IInv
  BY Start
<1>2. IInv /\ [Next]_vars => IInv'
  BY Step
<1>3. IInv => InBuffer
  <2> SUFFICES ASSUME IInv PROVE InBuffer
    OBVIOUS
  <2>1. Len(buf) \in Nat /\ \A k \in 1..Len(buf) : buf[k] \in Keys
    BY LenProperties, ElementOfSeq DEF IInv, ShellTypeOK
  <2>2. ASSUME NEW d \in {1, 2}, Deletes(d)
        PROVE  Writes(d) \subseteq 0..BufSize - 1 /\ Reads(d) \subseteq 0..BufSize
    <3>1. PICK key \in {"BS", "DEL"} : Sees(key)
      BY <2>2 DEF Deletes
    <3>2. /\ len \in Nat /\ i \in Int /\ At \in Nat /\ Len(buf) <= BufSize - 1 /\ BufSize \in Nat
      BY <3>1, Seen DEF Keys
    <3>3. Writes(d) = At..Len(buf) - 1 /\ Reads(d) = At + d..Len(buf) + d - 1
      BY <2>1, <3>2 DEF Writes, Reads, n, At
    <3> QED BY <2>1, <3>2, <3>3
  <2>3. /\ len \in 0..Len(buf) + 1 /\ Len(buf) <= BufSize - 1
        /\ command \in 0..Len(buf)
        /\ pc = "edit" /\ i < n => len + i >= command
    BY <2>1 DEF IInv, ShellTypeOK, Between, Inside, At, n
  <2> QED BY <2>1, <2>2, <2>3 DEF InBuffer
<1> QED BY <1>1, <1>2, <1>3, PTL DEF Spec

\* The shell never asks uart0_rxbuffer for zero characters: a line that fills
\* the buffer exactly is dropped as an overflow.
THEOREM ReadsOn == Spec => []RoomToRead
<1>1. Init => IInv
  BY Start
<1>2. IInv /\ [Next]_vars => IInv'
  BY Step
<1>3. IInv => RoomToRead
  BY DEF IInv, Between, RoomToRead
<1> QED BY <1>1, <1>2, <1>3, PTL DEF Spec

-----------------------------------------------------------------------------
(***************************************************************************)
(* The line that is run.  What the editor has ahead of it in buf is what   *)
(* the user has typed and it has not come past; while no error was found   *)
(* and the line was not spoilt, the command behind it is the line the user *)
(* sees.                                                                   *)
(***************************************************************************)
TypedOK == typed \in [line : Seq(Keys), ahead : Seq(Keys), spoilt : BOOLEAN]

Ahead ==
    /\ Len(typed.ahead) = Len(buf) - At
    /\ \A k \in 1..Len(typed.ahead) : typed.ahead[k] = buf[At + k]

Behind ==
    ~overflow /\ ~nonprintable /\ ~typed.spoilt =>
        /\ Len(typed.line) = At - command
        /\ \A k \in 1..Len(typed.line) : typed.line[k] = buf[command + k]

TypedInv == TypedOK /\ Ahead /\ Behind

LEMMA TypedInit == ASSUME Init PROVE TypedInv
BY EmptySeq DEF Init, TypedInv, TypedOK, Ahead, Behind, At

\* A key leaves a line behind it
LEMMA TypeIs ==
    ASSUME NEW line \in Seq(Keys), NEW key \in Keys
    PROVE  /\ Type(line, key) \in Seq(Keys)
           /\ key \in {"CR", "^C"} => Type(line, key) = <<>>
           /\ key = "DEL" => Type(line, key) = line
           /\ key = "BS" /\ line = <<>> => Type(line, key) = <<>>
           /\ key = "BS" /\ line # <<>> =>
                /\ Len(Type(line, key)) = Len(line) - 1
                /\ \A k \in 1..Len(line) - 1 : Type(line, key)[k] = line[k]
           /\ key \in Plain /\ Len(line) < BufSize => Type(line, key) = Append(line, key)
<1>1. CASE key \in {"CR", "^C"}
  <2>1. Type(line, key) = <<>>
    BY <1>1 DEF Type
  <2> QED BY <1>1, <2>1, EmptySeq DEF Plain, Printable
<1>2. CASE key = "DEL"
  <2>1. Type(line, key) = line
    BY <1>2 DEF Type
  <2> QED BY <1>2, <2>1 DEF Plain, Printable
<1>3. CASE key = "BS"
  <2>1. Type(line, key) = IF line = <<>> THEN line ELSE Front(line)
    BY <1>3 DEF Type
  <2>2. CASE line = <<>>
    BY <1>3, <2>1, <2>2 DEF Plain, Printable
  <2>3. CASE line # <<>>
    <3> DEFINE m == Len(line) - 1
    <3>1. m \in Nat /\ \A k \in 1..m : line[k] \in Keys
      BY <2>3, EmptySeq, LenProperties, ElementOfSeq
    <3>2. Type(line, key) = SubSeq(line, 1, m)
      BY <2>1, <2>3 DEF Front
    <3> HIDE DEF m
    <3>3. /\ SubSeq(line, 1, m) \in Seq(Keys) /\ Len(SubSeq(line, 1, m)) = m
          /\ \A k \in 1..m : SubSeq(line, 1, m)[k] = line[k]
      BY <3>1, SubSeqProperties
    <3>4. key \notin Plain /\ key \notin {"CR", "^C"} /\ key # "DEL"
      BY <1>3 DEF Plain, Printable
    <3> QED BY <2>3, <3>2, <3>3, <3>4, Zenon DEF m
  <2> QED BY <2>2, <2>3
<1>4. CASE key \in Plain
  <2>1. Type(line, key) = IF Len(line) < BufSize THEN Append(line, key) ELSE line
    BY <1>4 DEF Type, Plain, Printable
  <2>2. Type(line, key) \in Seq(Keys)
    BY <2>1, AppendProperties
  <2> QED BY <1>4, <2>1, <2>2 DEF Plain, Printable
<1> QED BY <1>1, <1>2, <1>3, <1>4 DEF Keys, Plain, Printable

\* The editor looks at the next key the user has typed
LEMMA NextKey ==
    ASSUME IInv, TypedInv, NEW key \in Keys, Sees(key)
    PROVE  /\ typed.ahead \in Seq(Keys) /\ typed.ahead # <<>> /\ Head(typed.ahead) = key
           /\ typed.line \in Seq(Keys)
           /\ Len(typed.ahead) = Len(buf) - At
           /\ typed.spoilt \in BOOLEAN
<1>1. /\ At \in Nat /\ Len(buf) \in Nat /\ At < Len(buf) /\ buf[At + 1] = key
  BY Seen
<1>2. /\ typed.ahead \in Seq(Keys) /\ typed.line \in Seq(Keys)
      /\ Len(typed.ahead) = Len(buf) - At /\ typed.spoilt \in BOOLEAN
  BY DEF TypedInv, TypedOK, Ahead
<1>3. typed.ahead # <<>>
  BY <1>1, <1>2, EmptySeq
<1>4. Head(typed.ahead) = typed.ahead[1]
  BY <1>2, <1>3
<1>5. 1 \in 1..Len(typed.ahead) /\ typed.ahead[1] = buf[At + 1]
  BY <1>1, <1>2 DEF TypedInv, Ahead
<1> QED BY <1>1, <1>2, <1>3, <1>4, <1>5

\* What is left ahead of the editor
LEMMA PassesIs ==
    ASSUME IInv, TypedInv, NEW key \in Keys, Sees(key), Passes
    PROVE  /\ TypedOK'
           /\ key \notin {"CR", "^C"} => typed'.spoilt = typed.spoilt
           /\ typed'.line = Type(typed.line, key)
           /\ Len(typed'.ahead) = Len(buf) - At - 1
           /\ \A k \in 1..Len(typed'.ahead) : typed'.ahead[k] = buf[At + 1 + k]
<1>1. /\ typed.ahead \in Seq(Keys) /\ typed.ahead # <<>> /\ Head(typed.ahead) = key
      /\ typed.line \in Seq(Keys) /\ Len(typed.ahead) = Len(buf) - At
      /\ typed.spoilt \in BOOLEAN
  BY NextKey
<1>2. At \in Nat /\ Len(buf) \in Nat /\ At < Len(buf)
  BY Seen
<1>3. typed' = [line |-> Type(typed.line, key), ahead |-> Tail(typed.ahead),
                spoilt |-> typed.spoilt /\ key \notin {"CR", "^C"}]
  BY <1>1, Zenon DEF Passes
<1>4. /\ typed'.line = Type(typed.line, key) /\ typed'.ahead = Tail(typed.ahead)
      /\ typed'.spoilt = (typed.spoilt /\ key \notin {"CR", "^C"})
  BY <1>3, Zenon
<1>5. /\ typed'.ahead \in Seq(Keys) /\ Len(typed'.ahead) = Len(typed.ahead) - 1
      /\ \A k \in 1..Len(typed'.ahead) : typed'.ahead[k] = typed.ahead[k + 1]
  BY <1>1, <1>4, HeadTailProperties
<1>6. TypedOK'
  <2>1. Type(typed.line, key) \in Seq(Keys)
    BY <1>1, TypeIs
  <2> QED BY <1>3, <1>4, <1>5, <2>1 DEF TypedOK
<1>7. ASSUME key \notin {"CR", "^C"} PROVE typed'.spoilt = typed.spoilt
  BY <1>1, <1>4, <1>7, Zenon
<1>8. ASSUME NEW k \in 1..Len(typed'.ahead) PROVE typed'.ahead[k] = buf[At + 1 + k]
  <2>1. k + 1 \in 1..Len(typed.ahead) /\ At + (k + 1) = At + 1 + k
    <3>1. Len(typed.ahead) \in Nat /\ Len(typed'.ahead) = Len(typed.ahead) - 1
      BY <1>1, <1>2, <1>5
    <3>2. k \in Nat
      BY <3>1
    <3> QED BY <1>2, <3>1, <3>2
  <2>2. typed.ahead[k + 1] = buf[At + (k + 1)]
    BY <2>1 DEF TypedInv, Ahead
  <2> QED BY <1>5, <2>1, <2>2
<1> QED BY <1>1, <1>2, <1>4, <1>5, <1>6, <1>7, <1>8

LEMMA ReadTyped == ASSUME IInv, TypedInv, Read PROVE TypedInv'
<1>1. PICK chunk \in Chunks : /\ buf' = buf \o chunk
                              /\ typed' = [typed EXCEPT !.ahead = @ \o chunk]
  BY Zenon DEF Read
<1>2. /\ pc = "read" /\ i' = 0 /\ command' = 0
      /\ len' = len /\ overflow' = overflow /\ nonprintable' = nonprintable
  BY Zenon DEF Read
<1>3. chunk \in Seq(Keys) /\ Len(chunk) \in Nat
  BY DEF Chunks
<1>4. buf \in Seq(Keys) /\ len = Len(buf) /\ i = 0 /\ command = 0 /\ len \in Nat
  BY <1>2 DEF IInv, ShellTypeOK, Between
<1>5. At = len /\ At' = len
  BY <1>2, <1>4 DEF At
<1>6. typed.ahead \in Seq(Keys) /\ typed.ahead = <<>> /\ typed.line \in Seq(Keys)
  <2>1. typed.ahead \in Seq(Keys) /\ typed.line \in Seq(Keys) /\ Len(typed.ahead) = 0
    BY <1>4, <1>5 DEF TypedInv, TypedOK, Ahead
  <2> QED BY <2>1, EmptySeq
<1>7. typed'.ahead = chunk /\ typed'.line = typed.line /\ typed'.spoilt = typed.spoilt
  <2>1. typed'.ahead = typed.ahead \o chunk /\ typed'.line = typed.line /\ typed'.spoilt = typed.spoilt
    BY <1>1 DEF TypedInv, TypedOK
  <2> QED BY <1>3, <1>6, <2>1, ConcatEmptySeq
<1>8. TypedOK'
  BY <1>1, <1>3, <1>6, <1>7 DEF TypedInv, TypedOK
<1>9. /\ Len(buf') = len + Len(chunk)
      /\ \A k \in 1..len : buf'[k] = buf[k]
      /\ \A k \in 1..Len(chunk) : buf'[len + k] = chunk[k]
  <2>1. /\ Len(buf \o chunk) = Len(buf) + Len(chunk)
        /\ \A k \in 1..Len(buf) + Len(chunk) :
              (buf \o chunk)[k] = IF k <= Len(buf) THEN buf[k] ELSE chunk[k - Len(buf)]
    BY <1>3, <1>4, ConcatProperties
  <2>2. ASSUME NEW k \in 1..Len(chunk) PROVE buf'[len + k] = chunk[k]
    <3>1. /\ len + k \in 1..Len(buf) + Len(chunk) /\ ~(len + k <= Len(buf))
          /\ (len + k) - Len(buf) = k
      BY <1>3, <1>4
    <3> QED BY <1>1, <2>1, <3>1
  <2> QED BY <1>1, <1>3, <1>4, <2>1, <2>2
<1>10. Ahead'
  BY <1>3, <1>4, <1>5, <1>7, <1>9 DEF Ahead
<1>11. Behind'
  <2> SUFFICES ASSUME ~overflow, ~nonprintable, ~typed.spoilt
               PROVE  /\ Len(typed.line) = len
                      /\ \A k \in 1..Len(typed.line) : typed.line[k] = buf'[0 + k]
    BY <1>2, <1>4, <1>5, <1>7 DEF Behind
  <2>1. /\ Len(typed.line) = len
        /\ \A k \in 1..Len(typed.line) : typed.line[k] = buf[0 + k]
    BY <1>4, <1>5 DEF TypedInv, Behind
  <2> QED BY <1>4, <1>9, <2>1
<1> QED BY <1>8, <1>10, <1>11 DEF TypedInv

\* A carriage return and Ctrl-C begin a new line
LEMMA NewTyped ==
    ASSUME IInv, TypedInv, NEW key \in {"CR", "^C"}, Sees(key), NewCommand, Passes, buf' = buf
    PROVE  TypedInv'
<1>1. key \in Keys
  BY DEF Keys
<1>2. At \in Nat /\ Len(buf) \in Nat /\ len \in Nat /\ i \in Int
  BY <1>1, Seen
<1>3. At' = At + 1 /\ command' = At + 1
  BY <1>2 DEF NewCommand, At
<1>4. typed.line \in Seq(Keys)
  BY <1>1, NextKey
<1>5. /\ TypedOK'
      /\ typed'.line = Type(typed.line, key)
      /\ Len(typed'.ahead) = Len(buf) - At - 1
      /\ \A k \in 1..Len(typed'.ahead) : typed'.ahead[k] = buf[At + 1 + k]
  BY <1>1, PassesIs
<1>6. typed'.line = <<>>
  BY <1>1, <1>4, <1>5, TypeIs
<1>7. Ahead'
  BY <1>2, <1>3, <1>5 DEF Ahead
<1>8. Behind'
  BY <1>2, <1>3, <1>6, EmptySeq DEF Behind
<1> QED BY <1>5, <1>7, <1>8 DEF TypedInv

\* A character of the line
LEMMA PlainTyped ==
    ASSUME IInv, TypedInv, NEW key \in Plain, Sees(key), i' = i + 1, Passes,
           UNCHANGED <<buf, len, command, overflow>>, nonprintable' \/ nonprintable' = nonprintable
    PROVE  TypedInv'
<1>1. key \in Keys
  BY DEF Keys, Plain, Printable
<1>2. /\ At \in Nat /\ Len(buf) \in Nat /\ len \in Nat /\ i \in Int /\ command \in Nat
      /\ At < Len(buf) /\ Len(buf) <= BufSize - 1 /\ BufSize \in Nat /\ buf[At + 1] = key
      /\ command <= At
  BY <1>1, Seen
<1>3. At' = At + 1 /\ command' = command /\ buf' = buf
  BY <1>2 DEF At
<1>4. typed.line \in Seq(Keys)
  BY <1>1, NextKey
<1>5. /\ TypedOK' /\ typed'.spoilt = typed.spoilt
      /\ typed'.line = Type(typed.line, key)
      /\ Len(typed'.ahead) = Len(buf) - At - 1
      /\ \A k \in 1..Len(typed'.ahead) : typed'.ahead[k] = buf[At + 1 + k]
  <2>1. key \notin {"CR", "^C"}
    BY DEF Plain, Printable
  <2> QED BY <1>1, <2>1, PassesIs
<1>6. Ahead'
  BY <1>2, <1>3, <1>5 DEF Ahead
<1>7. ASSUME ~overflow', ~nonprintable', ~typed'.spoilt
      PROVE  /\ Len(typed'.line) = At + 1 - command
             /\ \A k \in 1..Len(typed'.line) : typed'.line[k] = buf[command + k]
  <2>1. /\ Len(typed.line) = At - command
        /\ \A k \in 1..Len(typed.line) : typed.line[k] = buf[command + k]
    <3>1. ~overflow /\ ~nonprintable
      BY <1>7
    <3>2. ~typed.spoilt
      BY <1>5, <1>7
    <3> QED BY <3>1, <3>2 DEF TypedInv, Behind
  <2>2. typed'.line = Append(typed.line, key)
    <3>1. Len(typed.line) < BufSize
      BY <1>2, <2>1
    <3> QED BY <1>1, <1>4, <1>5, <3>1, TypeIs
  <2>3. /\ Len(typed'.line) = Len(typed.line) + 1
        /\ \A k \in 1..Len(typed.line) : typed'.line[k] = typed.line[k]
        /\ typed'.line[Len(typed.line) + 1] = key
    BY <1>1, <1>4, <2>2, AppendProperties
  <2>4. ASSUME NEW k \in 1..Len(typed'.line) PROVE typed'.line[k] = buf[command + k]
    <3>1. CASE k \in 1..Len(typed.line)
      BY <2>1, <2>3, <3>1
    <3>2. CASE k = Len(typed.line) + 1
      <4>1. command + k = At + 1
        BY <1>2, <2>1, <3>2
      <4> QED BY <1>2, <2>3, <3>2, <4>1
    <3>3. Len(typed.line) \in Nat
      BY <1>4, LenProperties
    <3>4. k \in 1..Len(typed.line) \/ k = Len(typed.line) + 1
      BY <2>3, <3>3
    <3> QED BY <3>1, <3>2, <3>4
  <2>5. Len(typed'.line) = At + 1 - command
    BY <1>2, <2>1, <2>3
  <2> QED BY <2>4, <2>5, Zenon
<1>8. Behind'
  <2> SUFFICES ASSUME ~overflow', ~nonprintable', ~typed'.spoilt
               PROVE  /\ Len(typed'.line) = At' - command'
                      /\ \A k \in 1..Len(typed'.line) : typed'.line[k] = buf'[command' + k]
    BY Zenon DEF Behind
  <2>1. /\ Len(typed'.line) = At + 1 - command
        /\ \A k \in 1..Len(typed'.line) : typed'.line[k] = buf[command + k]
    BY <1>7, Zenon
  <2>2. Len(typed'.line) = At' - command'
    BY <1>2, <1>3, <2>1
  <2>3. ASSUME NEW k \in 1..Len(typed'.line) PROVE typed'.line[k] = buf'[command' + k]
    BY <1>2, <1>3, <2>1
  <2> QED BY <2>2, <2>3
<1> QED BY <1>5, <1>6, <1>8 DEF TypedInv

LEMMA DeleteTyped == ASSUME IInv, TypedInv, Delete PROVE TypedInv'
<1>1. /\ Sees("DEL") /\ "DEL" \in Keys /\ Passes /\ buf' = Deleted(1)
      /\ UNCHANGED <<len, i, command, overflow, nonprintable>>
  BY DEF Delete, Keys
<1>2. /\ At \in Nat /\ Len(buf) \in Nat /\ At < Len(buf) /\ command \in Nat /\ command <= At
      /\ buf \in Seq(Keys)
  BY <1>1, Seen
<1>3. At' = At /\ command' = command
  BY <1>1 DEF At
<1>4. /\ Len(buf') = Len(buf) - 1
      /\ \A k \in 1..At : k <= Len(buf) - 1 => buf'[k] = buf[k]
      /\ \A k \in At + 1..Len(buf) - 1 : buf'[k] = buf[k + 1]
  <2>1. 1 \in {1, 2} /\ 1 <= Len(buf)
    BY <1>2
  <2> QED BY <1>1, <1>2, <2>1, DeletedIs
<1>5. /\ TypedOK' /\ typed'.spoilt = typed.spoilt
      /\ typed'.line = Type(typed.line, "DEL")
      /\ Len(typed'.ahead) = Len(buf) - At - 1
      /\ \A k \in 1..Len(typed'.ahead) : typed'.ahead[k] = buf[At + 1 + k]
  <2>1. "DEL" \notin {"CR", "^C"}
    OBVIOUS
  <2> QED BY <1>1, <2>1, PassesIs
<1>6. typed'.line = typed.line
  <2>1. typed.line \in Seq(Keys)
    BY <1>1, NextKey
  <2> QED BY <1>1, <1>5, <2>1, TypeIs
<1>7. Ahead'
  <2>1. ASSUME NEW k \in 1..Len(typed'.ahead) PROVE typed'.ahead[k] = buf'[At + k]
    <3>1. At + k \in At + 1..Len(buf) - 1 /\ (At + k) + 1 = At + 1 + k
      BY <1>2, <1>5
    <3> QED BY <1>4, <1>5, <3>1
  <2>2. Len(typed'.ahead) = Len(buf') - At
    BY <1>2, <1>4, <1>5
  <2> QED BY <1>3, <2>1, <2>2 DEF Ahead
<1>8. Behind'
  <2> SUFFICES ASSUME ~overflow, ~nonprintable, ~typed.spoilt
               PROVE  /\ Len(typed.line) = At - command
                      /\ \A k \in 1..Len(typed.line) : typed.line[k] = buf'[command + k]
    BY <1>1, <1>3, <1>5, <1>6, Zenon DEF Behind
  <2>1. /\ Len(typed.line) = At - command
        /\ \A k \in 1..Len(typed.line) : typed.line[k] = buf[command + k]
    BY DEF TypedInv, Behind
  <2>2. ASSUME NEW k \in 1..Len(typed.line) PROVE typed.line[k] = buf'[command + k]
    <3>1. command + k \in 1..At /\ command + k <= Len(buf) - 1
      BY <1>2, <2>1
    <3> QED BY <1>4, <2>1, <3>1
  <2> QED BY <2>1, <2>2
<1> QED BY <1>5, <1>7, <1>8 DEF TypedInv

\* A backspace with nothing to take back
LEMMA EmptyBackspace ==
    ASSUME IInv, TypedInv, Sees("BS"), Passes, buf' = Deleted(1), command = At,
           UNCHANGED <<len, i, command, overflow, nonprintable>>
    PROVE  TypedInv'
<1>1. "BS" \in Keys
  BY DEF Keys
<1>2. /\ At \in Nat /\ Len(buf) \in Nat /\ At < Len(buf) /\ buf \in Seq(Keys)
      /\ typed.line \in Seq(Keys)
  BY <1>1, Seen, NextKey
<1>3. At' = At /\ command' = At
  BY DEF At
<1>4. /\ Len(buf') = Len(buf) - 1
      /\ \A k \in At + 1..Len(buf) - 1 : buf'[k] = buf[k + 1]
  <2>1. 1 \in {1, 2} /\ 1 <= Len(buf)
    BY <1>2
  <2> QED BY <1>2, <2>1, DeletedIs
<1>5. /\ TypedOK' /\ typed'.spoilt = typed.spoilt
      /\ typed'.line = Type(typed.line, "BS")
      /\ Len(typed'.ahead) = Len(buf) - At - 1
      /\ \A k \in 1..Len(typed'.ahead) : typed'.ahead[k] = buf[At + 1 + k]
  <2>1. "BS" \notin {"CR", "^C"}
    OBVIOUS
  <2> QED BY <1>1, <2>1, PassesIs
<1>6. Ahead'
  <2>1. ASSUME NEW k \in 1..Len(typed'.ahead) PROVE typed'.ahead[k] = buf'[At + k]
    <3>1. At + k \in At + 1..Len(buf) - 1 /\ (At + k) + 1 = At + 1 + k
      BY <1>2, <1>5
    <3> QED BY <1>4, <1>5, <3>1
  <2>2. Len(typed'.ahead) = Len(buf') - At
    BY <1>2, <1>4, <1>5
  <2> QED BY <1>3, <2>1, <2>2 DEF Ahead
<1>7. ASSUME ~overflow, ~nonprintable, ~typed.spoilt PROVE typed'.line = <<>>
  <2>1. Len(typed.line) = 0
    BY <1>2, <1>7 DEF TypedInv, Behind
  <2>2. typed.line = <<>>
    BY <1>2, <2>1, EmptySeq
  <2> QED BY <1>1, <1>2, <1>5, <2>2, TypeIs
<1>8. Behind'
  BY <1>2, <1>3, <1>5, <1>7, EmptySeq DEF Behind
<1> QED BY <1>5, <1>6, <1>8 DEF TypedInv

\* A backspace that is the last character of its chunk: what it takes back is
\* the last of the line
LEMMA LastBackspace ==
    ASSUME IInv, TypedInv, Sees("BS"), Passes, buf' = Deleted(2), i' = i - 1,
           command # At, At + 1 = Len(buf), UNCHANGED <<len, command, overflow, nonprintable>>
    PROVE  TypedInv'
<1>1. "BS" \in Keys
  BY DEF Keys
<1>2. /\ At \in Nat /\ Len(buf) \in Nat /\ At < Len(buf) /\ command \in Nat /\ command <= At
      /\ buf \in Seq(Keys) /\ len \in Nat /\ i \in Int /\ typed.line \in Seq(Keys)
  BY <1>1, Seen, NextKey
<1>3. 2 <= Len(buf) /\ At' = At - 1 /\ At' = Len(buf) - 2
  BY <1>2 DEF At
<1>4. /\ Len(buf') = At'
      /\ \A k \in 1..At : k <= Len(buf) - 2 => buf'[k] = buf[k]
  BY <1>2, <1>3, DeletedIs
<1>5. /\ TypedOK' /\ typed'.spoilt = typed.spoilt
      /\ typed'.line = Type(typed.line, "BS")
      /\ Len(typed'.ahead) = Len(buf) - At - 1
  <2>1. "BS" \notin {"CR", "^C"}
    OBVIOUS
  <2> QED BY <1>1, <2>1, PassesIs
<1>6. Ahead'
  BY <1>2, <1>3, <1>4, <1>5 DEF Ahead
<1>7. ASSUME ~overflow, ~nonprintable, ~typed.spoilt
      PROVE  /\ Len(typed'.line) = At' - command
             /\ \A k \in 1..Len(typed'.line) : typed'.line[k] = buf'[command + k]
  <2>1. /\ Len(typed.line) = At - command
        /\ \A k \in 1..Len(typed.line) : typed.line[k] = buf[command + k]
    BY <1>7 DEF TypedInv, Behind
  <2>2. typed.line # <<>>
    BY <1>2, <2>1, EmptySeq
  <2>3. /\ Len(typed'.line) = Len(typed.line) - 1
        /\ \A k \in 1..Len(typed.line) - 1 : typed'.line[k] = typed.line[k]
    <3> DEFINE line == typed.line
    <3>1. line \in Seq(Keys) /\ line # <<>> /\ "BS" \in Keys
      BY <1>1, <1>2, <2>2
    <3> HIDE DEF line
    <3>2. /\ Len(Type(line, "BS")) = Len(line) - 1
          /\ \A k \in 1..Len(line) - 1 : Type(line, "BS")[k] = line[k]
      BY <3>1, TypeIs
    <3> QED BY <1>5, <3>2, Zenon DEF line
  <2>4. ASSUME NEW k \in 1..Len(typed'.line) PROVE typed'.line[k] = buf'[command + k]
    <3>1. /\ k \in 1..Len(typed.line) - 1 /\ k \in 1..Len(typed.line)
          /\ command + k \in 1..At /\ command + k <= Len(buf) - 2
      BY <1>2, <1>3, <2>1, <2>3
    <3> QED BY <1>4, <2>1, <2>3, <3>1
  <2> QED BY <1>2, <1>3, <2>1, <2>3, <2>4
<1>8. Behind'
  BY <1>5, <1>7 DEF Behind
<1> QED BY <1>5, <1>6, <1>8 DEF TypedInv

\* After any other backspace the line is spoilt; the editor still has ahead
\* what there is in buf
LEMMA SpoiltTyped ==
    ASSUME IInv, TypedInv, Sees("BS"), Spoilt, buf' = Deleted(2), i' = i - 1, len' = len,
           command # At
    PROVE  TypedInv'
<1>1. "BS" \in Keys
  BY DEF Keys
<1>2. /\ At \in Nat /\ Len(buf) \in Nat /\ At < Len(buf) /\ command \in Nat /\ command <= At
      /\ buf \in Seq(Keys) /\ len \in Nat /\ i \in Int /\ typed.line \in Seq(Keys)
  BY <1>1, Seen, NextKey
<1>3. 2 <= Len(buf) /\ At' = At - 1 /\ At' \in Nat /\ At' = len + i'
  BY <1>2 DEF At
<1>4. /\ buf' \in Seq(Keys) /\ Len(buf') = Len(buf) - 2 /\ Len(buf') \in Nat
  BY <1>2, <1>3, DeletedIs
<1>5. /\ typed'.line = Type(typed.line, "BS") /\ typed'.spoilt = TRUE
      /\ typed'.ahead = SubSeq(buf', len + i' + 1, Len(buf'))
      /\ DOMAIN typed' = {"line", "ahead", "spoilt"}
  BY DEF Spoilt
<1>6. Type(typed.line, "BS") \in Seq(Keys)
  BY <1>1, <1>2, TypeIs
<1> DEFINE m == len + i' + 1
           top == Len(buf')
<1>7. m \in Int /\ top \in Int /\ m = At' + 1 /\ At' <= top
  BY <1>2, <1>3, <1>4
<1>8. \A k \in m..top : buf'[k] \in Keys
  BY <1>3, <1>4, <1>7, ElementOfSeq
<1>9. typed'.ahead = SubSeq(buf', m, top)
  BY <1>5
<1> HIDE DEF m, top
<1>10. /\ typed'.ahead \in Seq(Keys) /\ Len(typed'.ahead) = IF m <= top THEN top - m + 1 ELSE 0
       /\ \A k \in 1..top - m + 1 : typed'.ahead[k] = buf'[m + k - 1]
  BY <1>7, <1>8, <1>9, SubSeqProperties
<1>11. TypedOK'
  <2>1. typed' = [line |-> Type(typed.line, "BS"), ahead |-> typed'.ahead, spoilt |-> TRUE]
    BY <1>5, Zenon DEF Spoilt
  <2>2. typed' \in [line : Seq(Keys), ahead : Seq(Keys), spoilt : BOOLEAN]
    <3> DEFINE l == Type(typed.line, "BS")
               a == typed'.ahead
    <3>1. l \in Seq(Keys) /\ a \in Seq(Keys) /\ typed' = [line |-> l, ahead |-> a, spoilt |-> TRUE]
      BY <1>6, <1>10, <2>1
    <3> HIDE DEF l, a
    <3> QED BY <3>1
  <2> QED BY <2>2 DEF TypedOK
<1>12. Len(typed'.ahead) = Len(buf') - At'
  BY <1>3, <1>4, <1>7, <1>10 DEF top
<1>13. ASSUME NEW k \in 1..Len(typed'.ahead) PROVE typed'.ahead[k] = buf'[At' + k]
  <2>1. k \in 1..top - At' /\ top \in Nat
    BY <1>4, <1>12 DEF top
  <2>2. k \in 1..top - m + 1 /\ m + k - 1 = At' + k
    <3> DEFINE p == At'
    <3>1. p \in Nat /\ m = p + 1 /\ top \in Nat /\ k \in 1..top - p
      BY <1>3, <1>7, <2>1
    <3> HIDE DEF p
    <3>2. k \in 1..top - m + 1 /\ m + k - 1 = p + k
      BY <3>1
    <3> QED BY <3>2, Zenon DEF p
  <2> QED BY <1>10, <2>2
<1>14. Ahead' /\ Behind'
  BY <1>5, <1>12, <1>13, Zenon DEF Ahead, Behind
<1> QED BY <1>11, <1>14 DEF TypedInv

LEMMA BackspaceTyped == ASSUME IInv, TypedInv, Backspace PROVE TypedInv'
<1>1. /\ Sees("BS") /\ "BS" \in Keys /\ UNCHANGED <<len, command, overflow, nonprintable>>
  BY DEF Backspace, Keys
<1>2. /\ At \in Nat /\ Len(buf) \in Nat /\ At < Len(buf) /\ len \in Nat /\ i \in Int
  BY <1>1, Seen
<1>3. CASE command = At
  <2>1. BackspaceDeletes = 1
    BY <1>3 DEF BackspaceDeletes, At
  <2>2. buf' = Deleted(1) /\ i' = i /\ Passes
    BY <1>2, <2>1 DEF Backspace, Spoils
  <2> QED BY <1>1, <1>3, <2>2, EmptyBackspace
<1>4. CASE command # At
  <2>1. BackspaceDeletes = 2
    BY <1>4 DEF BackspaceDeletes, At
  <2>2. buf' = Deleted(2) /\ i' = i - 1
    BY <1>2, <2>1 DEF Backspace
  <2>3. CASE Spoils
    <3>1. Spoilt
      BY <2>3 DEF Backspace
    <3> QED BY <1>1, <1>4, <2>2, <3>1, SpoiltTyped
  <2>4. CASE ~Spoils
    <3>1. Passes
      BY <2>4 DEF Backspace
    <3>2. At + 1 = Len(buf)
      BY <1>2, <2>1, <2>4 DEF Spoils, n, At
    <3> QED BY <1>1, <1>4, <2>2, <3>1, <3>2, LastBackspace
  <2> QED BY <2>3, <2>4
<1> QED BY <1>3, <1>4

LEMMA EndTyped == ASSUME IInv, TypedInv, EndOfChunk PROVE TypedInv'
<1>1. /\ pc = "edit" /\ i >= Len(buf) - len /\ i' = 0 /\ command' = 0
      /\ len' = Len(buf') /\ typed' = typed /\ nonprintable' = nonprintable
      /\ overflow' = (overflow \/ Full)
      /\ buf' = IF overflow' \/ nonprintable THEN <<>> ELSE Kept
  BY DEF EndOfChunk, n
<1>2. /\ buf \in Seq(Keys) /\ Len(buf) \in Nat /\ len \in Nat /\ i \in Int /\ command \in Nat
  BY LenProperties DEF IInv, ShellTypeOK
<1>3. At = Len(buf) /\ command <= At /\ At \in Nat
  BY <1>1, <1>2 DEF IInv, Inside, At
<1>4. IInv'
  BY EndStep
<1>5. Len(buf') \in Nat /\ At' = Len(buf')
  <2>1. Len(buf') \in Nat
    BY <1>4, LenProperties DEF IInv, ShellTypeOK
  <2> QED BY <1>1, <2>1 DEF At
<1>6. TypedOK'
  BY <1>1 DEF TypedInv, TypedOK
<1>7. Ahead'
  BY <1>1, <1>3, <1>5 DEF TypedInv, Ahead
<1>8. ASSUME ~overflow', ~nonprintable', ~typed.spoilt
      PROVE  /\ Len(typed.line) = Len(buf')
             /\ \A k \in 1..Len(typed.line) : typed.line[k] = buf'[0 + k]
  <2>1. /\ Len(typed.line) = At - command
        /\ \A k \in 1..Len(typed.line) : typed.line[k] = buf[command + k]
    BY <1>1, <1>8 DEF TypedInv, Behind
  <2> DEFINE m == command + 1
             top == Len(buf)
  <2>2. m \in Int /\ top \in Int /\ \A k \in m..top : buf[k] \in Keys
    BY <1>2, ElementOfSeq
  <2>3. buf' = SubSeq(buf, m, top)
    BY <1>1, <1>8 DEF Kept
  <2> HIDE DEF m, top
  <2>4. /\ Len(buf') = IF m <= top THEN top - m + 1 ELSE 0
        /\ \A k \in 1..top - m + 1 : buf'[k] = buf[m + k - 1]
    BY <2>2, <2>3, SubSeqProperties
  <2>5. m = command + 1 /\ top = At
    BY <1>3 DEF m, top
  <2>6. Len(typed.line) = Len(buf')
    BY <1>2, <1>3, <2>1, <2>4, <2>5
  <2>7. ASSUME NEW k \in 1..Len(typed.line) PROVE typed.line[k] = buf'[0 + k]
    <3>1. k \in 1..top - m + 1 /\ m + k - 1 = command + k /\ 0 + k = k
      BY <1>2, <1>3, <2>1, <2>5
    <3> QED BY <2>1, <2>4, <3>1
  <2> QED BY <2>6, <2>7
<1>9. Behind'
  BY <1>1, <1>5, <1>8 DEF Behind
<1> QED BY <1>6, <1>7, <1>9 DEF TypedInv

LEMMA TypedStep == ASSUME IInv, TypedInv, [Next]_vars PROVE TypedInv'
<1>1. CASE Read
  BY <1>1, ReadTyped
<1>2. CASE CtrlC
  BY <1>2, NewTyped DEF CtrlC
<1>3. CASE CarriageReturn
  BY <1>3, NewTyped DEF CarriageReturn
<1>4. CASE Backspace
  BY <1>4, BackspaceTyped
<1>5. CASE Delete
  BY <1>5, DeleteTyped
<1>6. CASE Unsupported
  <2>1. "^X" \in Plain /\ nonprintable'
    BY <1>6 DEF Unsupported, Plain
  <2> QED BY <1>6, <2>1, PlainTyped DEF Unsupported
<1>7. CASE Echo
  <2>1. PICK key \in Plain : Sees(key)
    BY <1>7 DEF Echo, Plain
  <2> QED BY <1>7, <2>1, PlainTyped DEF Echo
<1>8. CASE EndOfChunk
  BY <1>8, EndTyped
<1>9. CASE UNCHANGED vars
  BY <1>9 DEF vars, TypedInv, TypedOK, Ahead, Behind, At
<1> QED BY <1>1, <1>2, <1>3, <1>4, <1>5, <1>6, <1>7, <1>8, <1>9 DEF Next, Edit

\* The line the shell hands to its commands at a carriage return is the line
\* typed since the last one, for every size of buf and every split into
\* chunks, with corrections, behind other lines, behind one that was too long
\* or spoilt, unless a backspace of this line that takes a character back was
\* followed by more of its chunk.
THEOREM RunsTheLineTyped == Spec => []RunsWhatWasTyped
<1>1. Init => IInv /\ TypedInv
  BY Start, TypedInit
<1>2. IInv /\ TypedInv /\ [Next]_vars => (IInv /\ TypedInv)'
  BY Step, TypedStep
<1>3. IInv /\ TypedInv => RunsWhatWasTyped
  <2> SUFFICES ASSUME IInv, TypedInv, Runs, ~typed.spoilt
               PROVE  typed.ahead # <<>> /\ Head(typed.ahead) = "CR" /\ Line = typed.line
    BY DEF RunsWhatWasTyped
  <2>1. Sees("CR") /\ ~overflow /\ ~nonprintable /\ "CR" \in Keys
    BY DEF Runs, Keys
  <2>2. /\ typed.ahead # <<>> /\ Head(typed.ahead) = "CR" /\ typed.line \in Seq(Keys)
    BY <2>1, NextKey
  <2>3. /\ At \in Nat /\ command \in Nat /\ command <= At /\ At < Len(buf)
        /\ Len(buf) \in Nat /\ buf \in Seq(Keys)
    BY <2>1, Seen
  <2>4. /\ Len(typed.line) = At - command
        /\ \A k \in 1..Len(typed.line) : typed.line[k] = buf[command + k]
    BY <2>1 DEF TypedInv, Behind
  <2> DEFINE m == command + 1
             top == At
  <2>5. m \in Int /\ top \in Int /\ \A k \in m..top : buf[k] \in Keys
    BY <2>3, ElementOfSeq
  <2>6. Line = SubSeq(buf, m, top)
    BY DEF Line, At
  <2>7. m = command + 1 /\ top = At
    OBVIOUS
  <2> HIDE DEF m, top
  <2>8. /\ Line \in Seq(Keys) /\ Len(Line) = IF m <= top THEN top - m + 1 ELSE 0
        /\ \A k \in 1..top - m + 1 : Line[k] = buf[m + k - 1]
    BY <2>5, <2>6, SubSeqProperties
  <2>9. Len(Line) = Len(typed.line)
    BY <2>3, <2>4, <2>7, <2>8
  <2>10. ASSUME NEW k \in 1..Len(Line) PROVE Line[k] = typed.line[k]
    <3>1. k \in 1..Len(typed.line) /\ k \in 1..At - command /\ k \in Nat
      BY <2>3, <2>4, <2>9
    <3>2. k \in 1..top - m + 1 /\ m + k - 1 = command + k
      BY <2>3, <2>7, <3>1
    <3> QED BY <2>4, <2>8, <3>1, <3>2
  <2>11. Line = typed.line
    BY <2>2, <2>8, <2>9, <2>10, SeqEqual
  <2> QED BY <2>2, <2>11
<1> QED BY <1>1, <1>2, <1>3, PTL DEF Spec
=============================================================================
