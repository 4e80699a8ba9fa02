---------------------------- MODULE TranscriptLog ----------------------------
(***************************************************************************)
(* The transcript file (TranscriptLog and load_transcript_entries,         *)
(* utils/logging.py): one line per entry, appended as it comes and         *)
(* replaced as a whole when a session starts.                              *)
(*                                                                         *)
(* A file is a sequence of lines.  A line is the sequence of the entries   *)
(* that were written to it: one entry if the line is whole.  A process     *)
(* that dies while it appends leaves a line without its end, here a line   *)
(* that ends in Torn or in Split: what is appended next is glued to it, and *)
(* the parser skips the whole line.  Split is a part that ends inside a     *)
(* multi-byte character: the text of the file cannot be decoded any more.   *)
(***************************************************************************)
EXTENDS Integers, Sequences

\* What is left of an entry: whole characters, or a last one cut in two.
Torn == <<>>
Split == <<0>>
Part == {Torn, Split}

\* json.loads of a line succeeds: it holds one whole entry and nothing else.
Parses(line) == Len(line) = 1 /\ line[1] \notin Part

\* path.read_text decodes the file; it raises UnicodeDecodeError otherwise.
Readable(file) ==
  \A i \in DOMAIN file : \A j \in DOMAIN file[i] : file[i][j] # Split

\* The line is still open: no newline was written after it.
OpenEnded(file) ==
  file # <<>> /\ file[Len(file)][Len(file[Len(file)])] \in Part

\* _append_line: open in mode "a", write one entry and a newline.
AppendLine(file, e) ==
  IF OpenEnded(file)
    THEN [file EXCEPT ![Len(file)] = Append(@, e)]
    ELSE Append(file, <<e>>)

\* The process dies inside the write: part of the entry, no newline.
TearLine(file, part) == AppendLine(file, part)

\* load_transcript_entries of a file it can read: broken lines are skipped.
Entries(file) ==
  LET good == SelectSeq(file, Parses)
  IN  [i \in DOMAIN good |-> good[i][1]]

\* The entries it returns, when their order does not matter.
Whole(file) == {file[i][1] : i \in {j \in DOMAIN file : Parses(file[j])}}

\* save: the file is replaced by the given entries, a line each.
Saved(entries) == [i \in DOMAIN entries |-> <<entries[i]>>]

\* The file a session begins with: TranscriptLog.load or an empty log, saved.
Opened(file, resume) == IF resume THEN Saved(Entries(file)) ELSE <<>>
=============================================================================
