------------------------------ MODULE EcosParser ------------------------------
(***************************************************************************)
(* How the bytes ECoS sends become replies: EcosMessageParser, fed by      *)
(* EcosInterface::update(), which hands on at once every reply of a block  *)
(* that is complete.  ECoS sends block after block; the connection may     *)
(* break off anywhere in one, and a new one begins with a new block.  The  *)
(* parser is made once and never reset, so it goes on where it was.        *)
(* Bytes are taken by words, each one unit long; a word that a break cuts  *)
(* in two is a shorter one.  A reply's "kind" is left out: update() gives  *)
(* the parser a new reply for every byte, so it is UNKNOWN in all of them. *)
(***************************************************************************)
EXTENDS Integers, Sequences

CONSTANTS
    MaxLine, MaxReplies,    \* MAX_LINE_LENGTH, MAX_BLOCK_REPLIES
    Words, Blocks,          \* what ECoS sends, its markers excepted
    MaxBreaks               \* bound on connections that break off in a block

Junk == [t |-> "junk"]                                  \* no marker, no key
ReplyStart == [t |-> "reply"]                           \* <REPLY ...>
EventStart(id) == [t |-> "event", id |-> id]            \* <EVENT id>
BlockEnd(code) == [t |-> "end", code |-> code]          \* <END code (...)>
Number(n) == [t |-> "number", n |-> n]
Pair(key, val) == [t |-> "pair", key |-> key, val |-> val]
Function(fn, on) == [t |-> "func", fn |-> fn, on |-> on]
IsMarker(w) == w.t \in {"reply", "event", "end"}

\* ECoS sends blocks of lines between two markers; no line is one.
ASSUME EcosParserAssumption ==
    /\ MaxLine \in Nat \ {0, 1} /\ MaxReplies \in Nat \ {0} /\ MaxBreaks \in Nat
    /\ Blocks \subseteq [header : Nat, lines : Seq(Seq(Words) \ {<<>>}), code : Int]
    /\ \A w \in Words : ~IsMarker(w)

VARIABLES
    line,       \* line_buffer: the words of this line so far
    entries,    \* block_replies
    open,       \* block_in_progress
    header,     \* block_header_object_id
    block,      \* the block ECoS is sending, or sent last
    row, sent,  \* its lines, markers included, and words of the next one gone
    given,      \* what the parser handed on since the block began
    inStep,     \* history: the parser was at the start of a line when it began
    cut,        \* history: the connection broke off in it
    breaks

reading == <<line, entries, open, header>>
sending == <<block, row, sent, given, inStep, cut, breaks>>

-----------------------------------------------------------------------------
(* parsePropertyLine(), extractKeyValue(): the number of the object if the *)
(* line begins with one, and of every known key the value that comes last. *)
KnownKeys == {"speed", "dir", "addr", "state", "status"}
HasValue(w, key) == w.t = "pair" /\ w.key = key
Switches(w, fn) == w.t = "func" /\ w.fn = fn
LastWith(words, P(_)) ==
    words[CHOOSE i \in DOMAIN words : P(words[i]) /\ \A j \in i + 1 .. Len(words) : ~P(words[j])]
Value(words, key) ==
    LET val == LastWith(words, LAMBDA w : HasValue(w, key)).val
    IN  IF key \in {"speed", "dir"} THEN val % 256 ELSE val
PropertyLine(words) ==
    [id |-> IF words[1].t = "number" THEN words[1].n ELSE 0,
     said |-> [key \in {k \in KnownKeys : \E i \in DOMAIN words : HasValue(words[i], k)} |->
                 Value(words, key)],
     functions |-> [fn \in {f \in 0 .. 31 : \E i \in DOMAIN words : Switches(words[i], f)} |->
                      LastWith(words, LAMBDA w : Switches(w, fn)).on],
     code |-> -1]
Bare(id, code) == [id |-> id, said |-> <<>>, functions |-> <<>>, code |-> code]
\* The number and the code of its block, stamped on an entry.
Stamped(e, id, code) == [e EXCEPT !.code = code, !.id = IF @ = 0 THEN id ELSE @]

-----------------------------------------------------------------------------
\* resetBlock() and what a start marker sets after it.
NewBlockKeepsEntries(begun, id) == entries' = entries /\ open' = begun /\ header' = id
NewBlock(begun, id) == entries' = <<>> /\ open' = begun /\ header' = id

\* processByte(); a line that is too long takes the whole block with it.
TakeWord(w) ==
    \/ /\ Len(line) < MaxLine - 1
       /\ line' = Append(line, w) /\ UNCHANGED <<entries, open, header>>
    \/ /\ Len(line) >= MaxLine - 1
       /\ line' = <<>>
       /\ IF open THEN NewBlock(FALSE, 0) ELSE UNCHANGED <<entries, open, header>>

\* processLine(), for the words before a newline.
StartLine ==
    /\ line[1].t \in {"reply", "event"}
    /\ NewBlock(TRUE, IF line[1].t = "event" THEN line[1].id ELSE 0)
    /\ UNCHANGED given
EndLine ==
    /\ line[1].t = "end" /\ open
    /\ given' = given \o (IF entries = <<>> THEN <<Bare(header, line[1].code)>>
                          ELSE [i \in 1 .. Len(entries) |->
                                  Stamped(entries[i], header, line[1].code)])
    /\ open' = FALSE /\ UNCHANGED <<entries, header>>
ContentLine ==
    /\ ~IsMarker(line[1]) /\ open /\ Len(entries) < MaxReplies
    /\ entries' = Append(entries, PropertyLine(line))
    /\ UNCHANGED <<open, header, given>>
IgnoredLine ==
    /\ \/ line[1].t = "end" /\ ~open
       \/ ~IsMarker(line[1]) /\ (~open \/ Len(entries) >= MaxReplies)
    /\ UNCHANGED <<entries, open, header, given>>
TakeNewline ==
    /\ line' = <<>>
    /\ \/ line = <<>> /\ UNCHANGED <<entries, open, header, given>>
       \/ line # <<>> /\ (StartLine \/ EndLine \/ ContentLine \/ IgnoredLine)

-----------------------------------------------------------------------------
\* The lines of a block, its markers included, numbered from 0.
Row(b, i) == IF i = 0 THEN <<IF b.header = 0 THEN ReplyStart ELSE EventStart(b.header)>>
             ELSE IF i = Len(b.lines) + 1 THEN <<BlockEnd(b.code)>> ELSE b.lines[i]
AfterLast(b) == Len(b.lines) + 2
Over == row = AfterLast(block)

Begin(b) ==
    /\ Over
    /\ block' = b /\ row' = 0 /\ sent' = 0 /\ given' = <<>>
    /\ inStep' = (line = <<>>) /\ cut' = FALSE
    /\ UNCHANGED <<reading, breaks>>

SendWord ==
    /\ ~Over /\ sent < Len(Row(block, row))
    /\ TakeWord(Row(block, row)[sent + 1])
    /\ sent' = sent + 1
    /\ UNCHANGED <<block, row, given, inStep, cut, breaks>>

\* The carriage return before it is skipped.
SendNewline ==
    /\ ~Over /\ sent = Len(Row(block, row))
    /\ TakeNewline
    /\ row' = row + 1 /\ sent' = 0
    /\ UNCHANGED <<block, inStep, cut, breaks>>

\* What is left of a word that was not sent to its end.
Shortened(w) ==
    CASE w.t = "number" -> {Number(w.n \div 10)}
      [] w.t = "event" -> {EventStart(w.id \div 10), Junk}
      [] w.t = "pair" -> {Pair(w.key, w.val \div 10), Junk}
      [] w.t = "end" -> {BlockEnd(-1), BlockEnd(w.code \div 10), Junk}
      [] OTHER -> {Junk}

\* The rest of the block is never sent.
Lost ==
    /\ ~Over /\ breaks < MaxBreaks
    /\ breaks' = breaks + 1 /\ cut' = TRUE
    /\ row' = AfterLast(block) /\ sent' = 0
    /\ UNCHANGED <<block, given, inStep>>
BreakOff == Lost /\ UNCHANGED reading
BreakInWord ==
    /\ Lost /\ sent < Len(Row(block, row))
    /\ \E w \in Shortened(Row(block, row)[sent + 1]) : TakeWord(w)

\* Nothing was sent yet.
NoBlock == [header |-> 0, lines |-> <<>>, code |-> 0]
NothingSent ==
    /\ line = <<>> /\ entries = <<>> /\ open = FALSE /\ header = 0
    /\ block = NoBlock /\ row = AfterLast(NoBlock) /\ sent = 0 /\ given = <<>>
    /\ inStep = FALSE /\ cut = FALSE /\ breaks = 0
Transfer == (\E b \in Blocks : Begin(b)) \/ SendWord \/ SendNewline \/ BreakOff \/ BreakInWord
Stream == NothingSent /\ [][Transfer]_<<reading, sending>>

-----------------------------------------------------------------------------
\* What a block says by itself: nothing if the parser's buffer cannot hold it.
Meant(b) ==
    IF \E i \in 1 .. Len(b.lines) : Len(b.lines[i]) >= MaxLine THEN <<>>
    ELSE IF b.lines = <<>> THEN <<Bare(b.header, b.code)>>
    ELSE [i \in 1 .. IF Len(b.lines) < MaxReplies THEN Len(b.lines) ELSE MaxReplies |->
            Stamped(PropertyLine(b.lines[i]), b.header, b.code)]

(* Wherever connections broke off, the parser is back in step after one    *)
(* whole block, and of a block begun in step exactly what ECoS said in it  *)
(* is handed on, when it is complete and not before: nothing is left over  *)
(* from a broken block, and the blocks around a line that is too long are  *)
(* not touched by it.                                                      *)
Resynchronises ==
    /\ Over /\ ~cut => line = <<>>
    /\ inStep => given = IF Over /\ ~cut THEN Meant(block) ELSE <<>>
=============================================================================
