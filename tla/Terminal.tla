------------------------------ MODULE Terminal ------------------------------
(* An interactive shell at its terminal, from the key to the screen: the     *)
(* line discipline and app.ts of host-browser, stdin and stdout as module    *)
(* WasiCalls has them, the shell's LineReader and main loop, and a program   *)
(* that borrows both streams: one that prints (echo), or one that reads to   *)
(* the end and copies (cat).                                                 *)
(*                                                                           *)
(* What a line means is left open: it may start either program or, like cd   *)
(* or a parse error, none, or end the session, like exit; pwd is to the      *)
(* pipes a program that prints.  The echo of the keys is left out, and a     *)
(* pasted text is so many keys.                                              *)
EXTENDS WasiCalls

CONSTANTS
    Letter,     \* keys that stand for themselves
    NL,         \* '\n'
    Prompt,     \* the two strings writePrompt prints
    Output,     \* what the program that prints prints
    ChunkLen,   \* LineReader's chunk (256)
    CatChunk,   \* copyAll's chunk (4096)
    CatBuf,     \* the buffers of its std.Io.Reader and std.Io.Writer (4096)
    MaxTyped    \* bound on the bytes typed

ASSUME TerminalAssumption ==
    /\ NL \notin Letter
    /\ Byte = Letter \union {NL}
    /\ Prompt \in Seq(Seq(Byte) \ {<< >>}) /\ Prompt # << >>
    /\ Output \in Seq(Byte) \ {<< >>}
    /\ ChunkLen \in Nat \ {0}
    /\ CatChunk \in Nat \ {0}
    /\ CatBuf \in Nat \ {0}
    /\ MaxTyped \in Nat

VARIABLES
    editing,   \* buf of the line discipline
    entered,   \* history: the lines entered
    sent,      \* history: the bytes written to stdin, those a close threw away not included
    pc,        \* where main stands
    pending,   \* LineReader.pending
    eof,       \* LineReader.eof
    ran,       \* history: the lines given to runLine
    ranBytes,  \* history: the bytes LineReader made them of
    program,   \* the program running
    hold,      \* cat's chunk, and its reader's buffer
    ended,     \* it has found the end of its input, or reads none
    buffered,  \* its std.Io.Writer's buffer
    copied,    \* history: bytes cat was told are written
    printed,   \* history: all that was handed to fd_write
    screen     \* history: what drainToTerminal has shown

keyVars     == <<editing, entered, sent>>
shellVars   == <<pc, pending, eof, ran, ranBytes>>
programVars == <<program, hold, ended, buffered, copied>>
vars == <<callVars, keyVars, shellVars, programVars, printed, screen>>

Init ==
    /\ CallsInit
    /\ editing = << >> /\ entered = << >> /\ sent = << >>
    /\ pc = "prompt"
    /\ pending = << >> /\ eof = FALSE
    /\ ran = << >> /\ ranBytes = << >>
    /\ program = "none" /\ hold = << >> /\ ended = TRUE
    /\ buffered = << >> /\ copied = << >>
    /\ printed = << >> /\ screen = << >>

-----------------------------------------------------------------------------
(* The browser.                                                              *)

\* onData; the second guard is the bound.
Types(ch) ==
    /\ ~inClosed
    /\ Len(sent) + Len(editing) + 1 < MaxTyped
    /\ editing' = Append(editing, ch)
    /\ UNCHANGED <<callVars, entered, sent, shellVars, programVars, printed, screen>>

Erases ==
    /\ editing # << >>
    /\ editing' = Front(editing)
    /\ UNCHANGED <<callVars, entered, sent, shellVars, programVars, printed, screen>>

\* sendLine: a write that nobody awaits.
Enters ==
    LET line == editing \o <<NL>>
    IN  /\ ~inClosed
        /\ Len(sent) + Len(line) <= MaxTyped
        /\ inBuf' = inBuf \o line
        /\ sent' = sent \o line
        /\ entered' = Append(entered, editing)
        /\ editing' = << >>
        /\ UNCHANGED <<inClosed, outBuf, call, shellVars, programVars, printed, screen>>

\* closeWriteEnd by the shell's caller (the browser never does): the writes that wait for
\* room are rejected, and what they had not written yet is thrown away.
ClosesStdin ==
    LET kept == Lesser(Capacity, Len(inBuf))
    IN  /\ ~inClosed
        /\ inClosed' = TRUE
        /\ inBuf' = FirstOf(inBuf, kept)
        /\ sent' = FirstOf(sent, Len(sent) - (Len(inBuf) - kept))
        /\ UNCHANGED <<outBuf, call, editing, entered, shellVars, programVars, printed, screen>>

\* drainToTerminal.
Drains ==
    /\ outBuf # << >>
    /\ screen' = screen \o outBuf
    /\ outBuf' = << >>
    /\ UNCHANGED <<inBuf, inClosed, call, keyVars, shellVars, programVars, printed>>

-----------------------------------------------------------------------------
(* The shell.                                                                *)

\* Two writeOut: what the pipe sees of two fd_writes is what it sees of the two slices
\* of one.
WritesPrompt ==
    /\ pc = "prompt"
    /\ Writes(Prompt)
    /\ printed' = printed \o FlattenSeq(Prompt)
    /\ pc' = "prompting"
    /\ UNCHANGED <<keyVars, pending, eof, ran, ranBytes, programVars, screen>>

PromptWritten ==
    /\ pc = "prompting"
    /\ Returned("write")
    /\ Resumes
    /\ pc' = "next"
    /\ UNCHANGED <<keyVars, pending, eof, ran, ranBytes, programVars, printed, screen>>

\* runLine: an empty line is nothing; another starts a program, or nothing, or is `exit`.
RunLine(line, bytes) ==
    /\ ran' = Append(ran, line)
    /\ ranBytes' = ranBytes \o bytes
    /\ \/ /\ (pc' = "prompt") \/ (line # << >> /\ pc' = "exited")
          /\ UNCHANGED <<program, buffered, ended>>
       \/ /\ line # << >>
          /\ pc' = "running"
          /\ \/ program' = "echo" /\ buffered' = Output /\ ended' = TRUE
             \/ program' = "cat" /\ buffered' = << >> /\ ended' = FALSE
    /\ UNCHANGED <<hold, copied, printed>>

\* LineReader.next: a line that is there, the rest at the end of the file, or another read.
HasLine == Contains(pending, NL)

EndOfLineLast == CHOOSE i \in 1..Len(pending) : pending[i] = NL /\ ~Contains(From(pending, i + 1), NL)
EndOfLine == SelectInSeq(pending, LAMBDA b : b = NL)

NoRest == << >>
Rest == From(pending, EndOfLine + 1)

TakesLine ==
    /\ pc = "next" /\ call = NoCall
    /\ HasLine
    /\ RunLine(FirstOf(pending, EndOfLine - 1), FirstOf(pending, EndOfLine))
    /\ pending' = Rest
    /\ UNCHANGED <<callVars, keyVars, eof, screen>>

TakesLast ==
    /\ pc = "next" /\ call = NoCall
    /\ ~HasLine /\ eof /\ pending # << >>
    /\ RunLine(pending, pending)
    /\ pending' = << >>
    /\ UNCHANGED <<callVars, keyVars, eof, screen>>

ReadsChunk ==
    /\ pc = "next"
    /\ ~HasLine /\ ~eof
    /\ Reads(<<ChunkLen>>)
    /\ UNCHANGED <<keyVars, shellVars, programVars, printed, screen>>

NeverEof == FALSE
AtEof == call.total = 0

ChunkRead ==
    /\ pc = "next"
    /\ Returned("read")
    /\ Resumes
    /\ pending' = pending \o GotBytes
    /\ eof' = AtEof
    /\ UNCHANGED <<keyVars, pc, ran, ranBytes, programVars, printed, screen>>

\* next() is null, and main exits.
Exits ==
    /\ pc = "next" /\ call = NoCall
    /\ ~HasLine /\ eof /\ pending = << >>
    /\ pc' = "exited"
    /\ UNCHANGED <<callVars, keyVars, pending, eof, ran, ranBytes, programVars, printed, screen>>

ShellRuns ==
    \/ WritesPrompt \/ PromptWritten \/ TakesLine \/ TakesLast
    \/ ReadsChunk \/ ChunkRead \/ Exits

-----------------------------------------------------------------------------
(* The program, on Zig's std.Io: readSliceShort reads until the chunk is     *)
(* full or the file ends, into the rest of the chunk and the reader's        *)
(* buffer; writeAll puts a chunk into the writer's buffer, or writes both    *)
(* when it does not fit.                                                     *)

ChunkReady == hold # << >> /\ (ended \/ Len(hold) >= CatChunk)
Chunk      == FirstOf(hold, Lesser(CatChunk, Len(hold)))
Fits       == Len(buffered) + Len(Chunk) <= CatBuf

CatReads ==
    /\ pc = "running"
    /\ ~ended /\ ~ChunkReady
    /\ Reads(<<CatChunk - Len(hold), CatBuf>>)
    /\ UNCHANGED <<keyVars, shellVars, programVars, printed, screen>>

CatRead ==
    /\ pc = "running"
    /\ Returned("read")
    /\ Resumes
    /\ hold' = hold \o GotBytes
    /\ ended' = (call.total = 0)
    /\ UNCHANGED <<keyVars, shellVars, program, buffered, copied, printed, screen>>

CatBuffers ==
    /\ pc = "running" /\ call = NoCall
    /\ ChunkReady /\ Fits
    /\ buffered' = buffered \o Chunk
    /\ hold' = From(hold, Len(Chunk) + 1)
    /\ ended' = FALSE
    /\ UNCHANGED <<callVars, keyVars, shellVars, program, copied, printed, screen>>

\* A chunk that does not fit, or the flush at the end.
ProgramWrites ==
    /\ pc = "running"
    /\ \/ ChunkReady /\ ~Fits
       \/ ended /\ hold = << >> /\ buffered # << >>
    /\ Writes(<<buffered, Chunk>>)
    /\ printed' = printed \o buffered \o Chunk
    /\ UNCHANGED <<keyVars, shellVars, programVars, screen>>

\* The writer takes the bytes it was told are written off its buffer, then off the chunk.
ProgramWrote ==
    LET fromChunk == IF call.total > Len(buffered) THEN call.total - Len(buffered) ELSE 0
    IN  /\ pc = "running"
        /\ Returned("write")
        /\ Resumes
        /\ buffered' = From(buffered, call.total + 1)
        /\ hold' = From(hold, fromChunk + 1)
        /\ ended' = (ended /\ hold = << >>)
        /\ copied' = IF program = "cat" THEN copied \o FirstOf(buffered \o hold, call.total) ELSE copied
        /\ UNCHANGED <<keyVars, shellVars, program, printed, screen>>

ProgramEnds ==
    /\ pc = "running" /\ call = NoCall
    /\ ended /\ hold = << >> /\ buffered = << >>
    /\ pc' = "prompt"
    /\ program' = "none"
    /\ UNCHANGED <<callVars, keyVars, pending, eof, ran, ranBytes, hold, ended, buffered, copied, printed, screen>>

ProgramRuns == CatReads \/ CatRead \/ CatBuffers \/ ProgramWrites \/ ProgramWrote \/ ProgramEnds

-----------------------------------------------------------------------------
CallsRun ==
    /\ CallsGoOn
    /\ UNCHANGED <<keyVars, shellVars, programVars, printed, screen>>

Next ==
    \/ \E ch \in Letter : Types(ch)
    \/ Erases \/ Enters \/ ClosesStdin
    \/ Drains \/ CallsRun
    \/ ShellRuns \/ ProgramRuns

Spec == Init /\ [][Next]_vars

\* The event loop serves the calls and drains the output, and the guests run; nobody has
\* to type.
FairSpec ==
    /\ Spec
    /\ WF_vars(CallsRun) /\ WF_vars(Drains)
    /\ WF_vars(ShellRuns) /\ WF_vars(ProgramRuns)

-----------------------------------------------------------------------------
(* Properties.                                                               *)

\* The types of the discipline's, the shell's and the program's state.
TypeInvariant ==
    /\ CallTypes
    /\ editing \in Seq(Letter)
    /\ entered \in Seq(Seq(Letter))
    /\ sent \in Seq(Byte)
    /\ pc \in {"prompt", "prompting", "next", "running", "exited"}
    /\ pending \in Seq(Byte) /\ eof \in BOOLEAN
    /\ ran \in Seq(Seq(Byte)) /\ ranBytes \in Seq(Byte)
    /\ program \in {"none", "echo", "cat"}
    /\ hold \in Seq(Byte) /\ ended \in BOOLEAN
    /\ buffered \in Seq(Byte) /\ copied \in Seq(Byte)
    /\ printed \in Seq(Byte) /\ screen \in Seq(Byte)

ByShell(s) == IF pc = "next" THEN s ELSE << >>
ByCat(s)   == IF program = "cat" THEN s ELSE << >>

\* Every byte typed is read once, in order, by the shell or by the program it runs, however
\* the reads and the iovecs cut the stream: what the lines run were made of, what LineReader
\* has kept for later, what cat has copied or buffers, and what nobody has read yet, are
\* together what was sent.
TypedIsReadOnce ==
    sent = ranBytes \o pending \o ByShell(InFlight)
               \o copied \o ByCat(buffered \o hold \o InFlight) \o inBuf

\* The shell runs the lines that were entered, each whole and in order: a line over several
\* reads, several in one read, typed ahead while a program ran.  Only the last may be cut,
\* by a close that threw the rest of it away or a program that read it.
LinesAreWhole ==
    \A i \in 1..Len(ran) :
        /\ i <= Len(entered)
        /\ \/ ran[i] = entered[i]
           \/ i = Len(ran) /\ eof /\ IsPrefix(ran[i], entered[i])

\* The screen shows what was printed, in order, nothing twice and nothing left out, though
\* a write waits half-way for the drain.
ScreenInOrder == screen \o outBuf \o Unsent = printed

\* A line that was entered is run, unless a program that reads to the end of the input gets
\* it, the input is closed on it, or a line before it was `exit`.
EveryLineRuns ==
    \A n \in 1..MaxTyped :
        Len(entered) >= n ~> \/ Len(ran) >= n
                             \/ program = "cat" \/ inClosed \/ pc = "exited"

\* End of input ends the session, whatever was typed and whether a program that prints or
\* a cat of standard input is running.  (A line that hangs for a reason of its own, such as
\* a pipeline whose consumer stopped, is not among the programs here: see module Shell.)
CloseEndsSession == inClosed ~> pc = "exited"
=============================================================================
