-------------------------------- MODULE Shell -------------------------------
(***************************************************************************)
(* The line editor of the boot loader's shell, prvShellTask in             *)
(* demo/main_netboot.c.  The UART delivers what was typed in chunks of any *)
(* size; the shell edits each chunk in place, behind what it kept of the   *)
(* chunks before, and runs a command at every carriage return.             *)
(*                                                                         *)
(* A character is known by what the editor does with it: "a" and "b" are   *)
(* printable (a tab is, too), "^X" stands for the other control            *)
(* characters.  Echo and prompt are left out.                              *)
(***************************************************************************)
EXTENDS Integers, Sequences, SequencesExt

CONSTANTS
    BufSize,        \* sizeof(buf)
    MaxChunk        \* bound: the UART has a FIFO of 16 bytes

ASSUME ShellAssumption ==
    /\ BufSize \in Nat /\ BufSize >= 2
    /\ MaxChunk \in Nat \ {0}

Keys == {"a", "b", "BS", "DEL", "^C", "CR", "^X"}
Printable == {"a", "b"}

VARIABLES
    pc,            \* "read" between chunks, "edit" inside one
    buf,           \* the characters of buf that are in use
    len,           \* how many of them were there before this chunk
    i,             \* the character of the chunk that is looked at
    command,       \* where the command that is typed starts in buf
    overflow, nonprintable,
    typed          \* what the user has typed: the keys the editor has still
                   \* ahead of it, the line those behind it amount to, and
                   \* whether the editor has spoilt that line

vars == <<pc, buf, len, i, command, overflow, nonprintable, typed>>

n == Len(buf) - len

Init ==
    /\ pc = "read" /\ buf = <<>> /\ len = 0 /\ i = 0 /\ command = 0
    /\ overflow = FALSE /\ nonprintable = FALSE
    /\ typed = [line |-> <<>>, ahead |-> <<>>, spoilt |-> FALSE]

-----------------------------------------------------------------------------
(***************************************************************************)
(* What a key means to the user: a carriage return ends the line,          *)
(* backspace takes its last character back, Ctrl-C all of it, delete is    *)
(* ignored.  A line that does not fit in the buffer is never run; its end  *)
(* is not remembered.                                                      *)
(***************************************************************************)
Type(line, key) ==
    CASE key \in {"CR", "^C"} -> <<>>
      [] key = "BS"  -> IF line = <<>> THEN line ELSE Front(line)
      [] key = "DEL" -> line
      [] OTHER       -> IF Len(line) < BufSize THEN Append(line, key) ELSE line

\* The editor comes past a key; the end of a line ends what was spoilt of it
Passes ==
    LET key == Head(typed.ahead) IN
    typed' = [line   |-> Type(typed.line, key),
              ahead  |-> Tail(typed.ahead),
              spoilt |-> typed.spoilt /\ key \notin {"CR", "^C"}]

Chunks == UNION {[1..k -> Keys] : k \in 1..MaxChunk}

\* uart0_rxbuffer(buf + len, sizeof(buf) - 1 - len)
Read ==
    /\ pc = "read"
    /\ \E chunk \in Chunks :
        /\ Len(chunk) <= BufSize - 1 - len
        /\ buf' = buf \o chunk
        /\ typed' = [typed EXCEPT !.ahead = @ \o chunk]
    /\ pc' = "edit" /\ i' = 0 /\ command' = 0
    /\ UNCHANGED <<len, overflow, nonprintable>>

-----------------------------------------------------------------------------
(***************************************************************************)
(* The loop over the chunk.                                                *)
(***************************************************************************)
Sees(key) == pc = "edit" /\ i < n /\ buf[len + i + 1] = key

\* len += i + 1; n -= i + 1; i = -1; command = buf + len; and the i++
NewCommand ==
    /\ len' = len + i + 1 /\ command' = len + i + 1 /\ i' = 0

CtrlC ==
    /\ Sees("^C")
    /\ NewCommand
    /\ Passes
    /\ UNCHANGED <<pc, buf, overflow, nonprintable>>

(***************************************************************************)
(* Deleting: memmove(buf + len + i, buf + len + i + d, n - i), and n -= d. *)
(* It moves n - i characters whatever d is, and so comes to read up to d   *)
(* characters behind those in use.                                         *)
(***************************************************************************)
\* The indices into buf that it reads, and those that it writes
Reads(d)  == len + i + d .. len + n + d - 1
Writes(d) == len + i .. len + n - 1

\* The character at a position, "?" for what lies behind those in use
Holds(k) == IF k <= Len(buf) THEN buf[k] ELSE "?"

\* The characters that are in use afterwards
Deleted(d) == [k \in 1..Len(buf) - d |-> IF k <= len + i THEN buf[k] ELSE Holds(k + d)]

\* Fault: a character before the command is taken back
BackspaceDeletes_Two == 2

\* Nothing to take back at the start of the command
BackspaceDeletes == IF command = len + i THEN 1 ELSE 2

\* More of the chunk follows a backspace that takes a character back.  The
\* memmove starts at the backspace, where it is meant to start one character
\* before it: it takes away the backspace and the character behind it.
Spoils == BackspaceDeletes = 2 /\ i + 1 < n

\* The editor goes on at the character that should have gone
Spoilt == typed' = [line   |-> Type(typed.line, "BS"),
                    ahead  |-> SubSeq(buf', len + i' + 1, Len(buf')),
                    spoilt |-> TRUE]

Backspace ==
    /\ Sees("BS")
    /\ buf' = Deleted(BackspaceDeletes)
    /\ i' = i - BackspaceDeletes + 1
    /\ IF Spoils THEN Spoilt ELSE Passes
    /\ UNCHANGED <<pc, len, command, overflow, nonprintable>>

Delete ==
    /\ Sees("DEL")
    /\ buf' = Deleted(1)
    /\ Passes
    /\ UNCHANGED <<pc, len, i, command, overflow, nonprintable>>

\* A carriage return ends a line, which is run unless an error was found in it
Runs == Sees("CR") /\ ~overflow /\ ~nonprintable
Line == SubSeq(buf, command + 1, len + i)

CarriageReturn ==
    /\ Sees("CR")
    /\ NewCommand
    /\ Passes
    /\ overflow' = FALSE /\ nonprintable' = FALSE
    /\ UNCHANGED <<pc, buf>>

Unsupported ==
    /\ Sees("^X")
    /\ nonprintable' = TRUE
    /\ i' = i + 1
    /\ Passes
    /\ UNCHANGED <<pc, buf, len, command, overflow>>

Echo ==
    /\ \E key \in Printable : Sees(key)
    /\ i' = i + 1
    /\ Passes
    /\ UNCHANGED <<pc, buf, len, command, overflow, nonprintable>>

\* Fault: the limit is one character further
Full_Late == command = 0 /\ Len(buf) = BufSize

Full == command = 0 /\ Len(buf) = BufSize - 1

\* Fault: what precedes the command is kept
Kept_All == buf

\* What is kept for the next chunk
Kept == SubSeq(buf, command + 1, Len(buf))

\* The end of the chunk: what belongs to the command is kept, and nothing of
\* a command in which an error was found
EndOfChunk ==
    /\ pc = "edit" /\ i >= n
    /\ overflow' = (overflow \/ Full)
    /\ buf' = IF overflow' \/ nonprintable THEN <<>> ELSE Kept
    /\ len' = Len(buf')
    /\ pc' = "read" /\ i' = 0 /\ command' = 0
    /\ UNCHANGED <<nonprintable, typed>>

Edit == \/ CtrlC \/ Backspace \/ Delete \/ CarriageReturn \/ Unsupported \/ Echo
        \/ EndOfChunk

Next == Read \/ Edit

Spec == Init /\ [][Next]_vars

-----------------------------------------------------------------------------
(***************************************************************************)
(* Properties.                                                             *)
(***************************************************************************)
\* The editor looks at and deletes
Deletes(d) == \/ Sees("BS") /\ d = BackspaceDeletes
              \/ Sees("DEL") /\ d = 1

\* The editor stays in the characters it was given: the command and the
\* character it looks at lie in buf, with room for the final NUL, although a
\* backspace may take it back into what an earlier chunk left; a deletion
\* writes inside buf, reads no further than the character that follows buf
\* in memory, and nothing of what it reads behind the line gets into the line.
InBuffer ==
    /\ len \in 0..Len(buf) + 1 /\ Len(buf) <= BufSize - 1
    /\ command \in 0..Len(buf)
    /\ pc = "edit" /\ i < n => len + i >= command
    /\ \A k \in 1..Len(buf) : buf[k] \in Keys
    /\ \A d \in {1, 2} : Deletes(d) => /\ Writes(d) \subseteq 0..BufSize - 1
                                        /\ Reads(d) \subseteq 0..BufSize

\* The memmove of a deletion reads only inside buf.  This does not hold: where
\* the line fills buf up to the NUL, taking a character back reads buf[1024].
ReadsInBuffer == \A d \in {1, 2} : Deletes(d) => Reads(d) \subseteq 0..BufSize - 1

\* The shell runs a line when the user has entered it, and runs the line the
\* user sees: its characters may have come in any number of chunks, with
\* corrections, behind other lines, behind an overlong one or behind one that
\* was spoilt.  The one exception is a line in which a backspace that takes a
\* character back was not the last of its chunk (TakesBack).
RunsWhatWasTyped ==
    Runs /\ ~typed.spoilt => /\ typed.ahead # <<>> /\ Head(typed.ahead) = "CR"
                             /\ Line = typed.line

\* What the case marked "Backspace" is for, and what its echo shows on the
\* screen: the backspace goes, and with it the character before it, and no
\* other.  This does not hold where more of the chunk follows.
TakesBack ==
    Sees("BS") /\ BackspaceDeletes = 2 =>
        Deleted(2) = SubSeq(buf, 1, len + i - 1) \o SubSeq(buf, len + i + 2, Len(buf))

\* The shell can always read at least one more character: a full buffer
\* would make uart0_rxbuffer return 0 for ever.
RoomToRead == pc = "read" => len < BufSize - 1
=============================================================================
