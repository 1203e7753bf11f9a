------------------------- MODULE SemanticCompressor -------------------------
(***************************************************************************)
(* SemanticCompressor.compress (core/brain/context_compressor.py): which   *)
(* memory records survive a consolidation and with what content.           *)
(*                                                                         *)
(* A content is a sequence of pieces of text: bodies (one sentence each)   *)
(* and the texts the compressor itself inserts.  Every piece counts as one *)
(* token.  A record carries the number of its file, <type>_<id>.md, which  *)
(* the compressor never changes; files sort by number.                     *)
(***************************************************************************)
EXTENDS Naturals, Sequences, FiniteSets, SequencesExt

CONSTANTS
  Title,           \* the base titles of records
  Body,            \* the sentences a record may say
  Decision,        \* the sentences holding one of the summary's keywords
  Budget,          \* token_budget
  TruncateTokens,  \* max_tokens of _truncate
  MergeMax         \* _MEMORY_MERGE_CONTENT_MAX_CHARS

(* Inserted pieces: the merge separator and the truncation marker stand on *)
(* lines of their own; "[summary] ", "; " and a marker pulled into a       *)
(* summary do not end a sentence.                                          *)
Line  == {"separator", "cut"}
Inserted == Line \cup {"[summary]", ";", "note"}
Piece == Body \cup Inserted

ASSUME CompressorAssumption ==
  /\ Decision \subseteq Body /\ Body \cap Inserted = {}
  /\ Budget \in Nat \ {0} /\ TruncateTokens \in Nat \ {0} /\ MergeMax \in Nat

\* The marker at the end of a title.
Marker == {"", "truncated", "summary"}

Record == [file : Nat, title : Title, marker : Marker, content : Seq(Piece),
           importance : Nat, access : Nat, fresh : BOOLEAN, probe : BOOLEAN]

Tokens(e) == Len(e.content)

-----------------------------------------------------------------------------
(* The transforms of one record.  Importance counts thousandths.           *)

Expired(e) == ~e.fresh /\ e.access < 5

(* The largest head and tail, 60% and 40%, that fit with the marker.       *)
Truncated(e) ==
  IF Tokens(e) <= TruncateTokens THEN e
  ELSE LET kept == TruncateTokens - 1
           head == (kept * 6) \div 10
           tail == kept - head
           whole == e.content
       IN [e EXCEPT !.marker  = "truncated",
                    !.content = SubSeq(whole, 1, head) \o <<"cut">>
                                  \o SubSeq(whole, Len(whole) - tail + 1, Len(whole))]

(* A content as its sentences; a separator or cut is one by itself.        *)
Split(done, piece) ==
  IF piece \in Line \/ done = <<>> \/ Last(done)[1] \in Line
  THEN Append(done, <<piece>>)
  ELSE [done EXCEPT ![Len(done)] = Append(@, piece)]
Sentences(content) == FoldLeft(Split, <<>>, content)

\* The sentences that hold a keyword.
Choose(chosen, s) == IF ToSet(s) \cap Decision # {} THEN Append(chosen, s) ELSE chosen
Deciding(sentences) == FoldLeft(Choose, <<>>, sentences)

\* The first three of the sentences, on one line.
Inline(s) == [i \in DOMAIN s |-> IF s[i] \in Line THEN "note" ELSE s[i]]
Join(text, s) == IF text = <<>> THEN Inline(s) ELSE text \o <<";">> \o Inline(s)
Joined(sentences) ==
  FoldLeft(Join, <<>>, SubSeq(sentences, 1, IF Len(sentences) < 3 THEN Len(sentences) ELSE 3))

Summarized(e) ==
  LET all == Sentences(e.content)
      key == Deciding(all)
  IN [e EXCEPT !.marker     = "summary",
               !.content    = <<"[summary]">> \o Joined(IF key = <<>> THEN all ELSE key),
               !.importance = (@ * 9) \div 10]

-----------------------------------------------------------------------------
(* One pass over the records, the most important first (ties by file).     *)

MoreImportant(a, b) ==
  \/ a.importance > b.importance
  \/ a.importance = b.importance /\ a.file < b.file

\* The elements of a set, each behind those that come before it.
Ordered(S, Before(_, _)) ==
  [i \in 1 .. Cardinality(S) |-> CHOOSE e \in S : Cardinality({d \in S : Before(d, e)}) = i - 1]

Sorted(records) == Ordered(records, MoreImportant)

\* A record nobody has read for long is kept only if it is of importance.
Outdated(e) == Expired(e) /\ e.importance < 500

\* The records kept so far, and the tokens they use.
Keep(state, e) == [kept |-> Append(state.kept, e), used |-> state.used + Tokens(e)]

Fit(state, e) ==
  IF Outdated(e) THEN state
  ELSE IF state.used + Tokens(e) <= Budget THEN Keep(state, e)
  ELSE CASE e.importance >= 700         -> Keep(state, Truncated(e))
         [] e.importance \in 300 .. 699 -> Keep(state, Summarized(e))
         [] e.importance < 300          -> state

Fitted(sorted) == FoldLeft(Fit, [kept |-> <<>>, used |-> 0], sorted).kept

\* c says what d says, word for word.
Says(c, d) ==
  \E i \in 1 .. Len(c) : i + Len(d) - 1 <= Len(c) /\ SubSeq(c, i, i + Len(d) - 1) = d

(* Two records of one title folded into the one read more often, the first *)
(* on a tie; nothing when the merged content would be too long.            *)
Absorbed(survivor, duplicate) ==
  LET first == survivor.access >= duplicate.access
      p == IF first THEN survivor ELSE duplicate
      s == IF first THEN duplicate ELSE survivor
      said == s.content = <<>> \/ Says(p.content, s.content)
      content == IF said THEN p.content ELSE p.content \o <<"separator">> \o s.content
  IN IF ~said /\ Len(content) > MergeMax THEN {}
     ELSE {[p EXCEPT !.content    = content,
                     !.marker     = IF p.marker = s.marker THEN @ ELSE "",
                     !.importance = IF s.importance > @ THEN s.importance ELSE @,
                     !.fresh      = @ \/ s.fresh]}

(* A record is folded into the first survivor of its title, if it fits.    *)
Merge(merged, e) ==
  LET same == {i \in DOMAIN merged : merged[i].title = e.title}
      at == CHOOSE i \in same : \A j \in same : i <= j
      one == Absorbed(merged[at], e)
  IN IF same = {} \/ one = {} THEN Append(merged, e)
     ELSE [merged EXCEPT ![at] = CHOOSE r \in one : TRUE]

Merged(kept) == FoldLeft(Merge, <<>>, kept)

\* The survivors, in the order they are stored.
Compress(records) == Merged(Fitted(Sorted(records)))

=============================================================================
