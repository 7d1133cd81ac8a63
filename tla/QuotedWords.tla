---------------------------- MODULE QuotedWords ----------------------------
(***************************************************************************)
(* How the words a bill quotes show which change an amendment made         *)
(* (legislature::evidence_matching::quoted_words).                         *)
(*                                                                         *)
(* A text is the sequence of its tokens, words and marks, as               *)
(* cased_tokens_of reads them; Lower takes the case of a word away. Parts  *)
(* spells a word: two words printed as one have the parts of both.         *)
(*                                                                         *)
(* A quoted string is [text, direction], an enacted block [text, printed], *)
(* where printed holds the other ways the Code's editors can print it      *)
(* (code_edits.rs). The words of an amendment are [quoted, enacted], each  *)
(* a sequence. A change is [path, before, after, fields, below, whole,     *)
(* renumberedBy]: fields are the words after it field by field, its own    *)
(* first, and below those of the provisions below it.                      *)
(***************************************************************************)
EXTENDS Naturals, Sequences, FiniteSets, Functions, SequencesExt

CONSTANTS
  Lower,      \* a word in lower case
  Parts,      \* how a word is spelled
  Mark,       \* the tokens that are no words
  Common,     \* COMMON_WORDS
  FewWords,   \* FEW_WORDS
  FirstWords  \* FIRST_WORDS of a block, enough to tell it from another

ASSUME WordsAssumption == FewWords \in Nat /\ FirstWords \in Nat

IsWord(token) == token \notin Mark

TokensOf(text) == [n \in DOMAIN text |-> Lower[text[n]]]

WordsOf(text) == SelectSeq(TokensOf(text), IsWord)

RunAt(tokens, run, n) ==
  /\ n + Len(run) <= Len(tokens) + 1
  /\ SubSeq(tokens, n, n + Len(run) - 1) = run

Occurrences(tokens, run) ==
  IF run = <<>> THEN 0
  ELSE Cardinality({n \in DOMAIN tokens : RunAt(tokens, run, n)})

ContainsRun(tokens, run) == Occurrences(tokens, run) > 0

Said(runs) == SelectSeq(runs, LAMBDA run : run # <<>>)

(* Every run, each after the one before it, where an edge of the tokens is *)
(* on both its sides.                                                      *)
InOrder(tokens, edges, runs) ==
  LET next(from, run) ==
        LET starts == {n \in from..Len(tokens) :
              RunAt(tokens, run, n) /\ {n, n + Len(run)} \subseteq edges}
        IN IF from = 0 \/ starts = {} THEN 0
           ELSE Len(run) + CHOOSE n \in starts : \A m \in starts : n <= m
  IN Said(runs) # <<>> /\ FoldLeft(next, 1, Said(runs)) # 0

RunsInOrder(tokens, runs) == InOrder(tokens, 1..Len(tokens) + 1, runs)

Letters(words) == FlattenSeq([n \in DOMAIN words |-> Parts[words[n]]])

(* Spelled::runs_in_order: with the spaces taken out, from the start of a  *)
(* word to the end of a word.                                              *)
SpelledInOrder(words, runs) ==
  InOrder(Letters(words),
          {1 + Len(Letters(SubSeq(words, 1, n))) : n \in 0..Len(words)},
          [n \in DOMAIN runs |-> Letters(runs[n])])

TakenOut(tokens, run) ==
  LET left[n \in 1..Len(tokens) + 1] ==
        IF n > Len(tokens) THEN <<>>
        ELSE IF RunAt(tokens, run, n) THEN left[n + Len(run)]
        ELSE <<tokens[n]>> \o left[n + 1]
  IN left[1]

Without(tokens, runs) == FoldLeft(TakenOut, tokens, Said(runs))

Counted(words, word) == Occurrences(words, <<word>>)

(* brings_new_words: a word is there more often after than before.         *)
BringsNewWords(before, after) ==
  \E word \in Range(WordsOf(after)) :
    Counted(WordsOf(after), word) > Counted(WordsOf(before), word)

DifferingWords(before, after) ==
  {word \in Range(before) \cup Range(after) :
     IsWord(word) /\ Counted(before, word) # Counted(after, word)}

(* Tokens open a provision: a designation with words after it, at the      *)
(* start or after a quotation mark.                                        *)
OpensWithADesignation(tokens) ==
  \E n \in 1..Len(tokens) - 3 :
    /\ n = 1 \/ tokens[n - 1] = "\""
    /\ tokens[n] = "(" /\ IsWord(tokens[n + 1])
    /\ tokens[n + 2] = ")" /\ tokens[n + 3] # "("

-----------------------------------------------------------------------------
(* The words of one amendment.                                             *)

NoWords == [quoted |-> <<>>, enacted |-> <<>>]

With(quoted, direction) == SelectSeq(quoted, LAMBDA q : q.direction = direction)

QuotesAnything(e) == e.quoted # <<>> \/ e.enacted # <<>>

QuotesOnlyStruck(e) ==
  e.enacted = <<>> /\ With(e.quoted, "struck") = e.quoted

Additions(e) == Len(With(e.quoted, "inserted")) + Len(e.enacted)

OpensAProvision(e) ==
  \/ \E q \in Range(With(e.quoted, "inserted")) :
       OpensWithADesignation(TokensOf(q.text))
  \/ \E b \in Range(e.enacted) : OpensWithADesignation(TokensOf(b.text))

StatedWords(e) ==
  UNION ({Range(WordsOf(q.text)) : q \in Range(e.quoted)}
         \cup {Range(WordsOf(b.text)) : b \in Range(e.enacted)})

(* of_item: of the words of an instruction, those one item's words state.  *)
OfItem(e, itemWords) ==
  LET own(q) == ContainsRun(TokensOf(itemWords),
                            <<"\"">> \o TokensOf(q.text) \o <<"\"">>)
      first(b) == SubSeq(WordsOf(b.text), 1,
                    IF Len(WordsOf(b.text)) < FirstWords
                    THEN Len(WordsOf(b.text)) ELSE FirstWords)
  IN [quoted |-> SelectSeq(e.quoted, own),
      enacted |-> SelectSeq(e.enacted,
                    LAMBDA b : ContainsRun(WordsOf(itemWords), first(b)))]

(* acts_on_words_in: the text holds every string the amendment strikes or  *)
(* marks a place with, and there is one.                                   *)
ActsOnWordsIn(e, text) ==
  LET actedOn == SelectSeq(e.quoted, LAMBDA q : q.direction # "inserted")
  IN /\ actedOn # <<>>
     /\ \A q \in Range(actedOn) : ContainsRun(TokensOf(text), TokensOf(q.text))

(* Quoted::is_shown_as.                                                    *)
ShowsIn(direction, run, before, after) ==
  LET was == Occurrences(before, run)
      is == Occurrences(after, run)
  IN CASE direction = "struck" -> was > is
       [] direction = "inserted" -> is > was
       [] direction = "either" -> was # is

InsertedIn(e, before, after) ==
  LET shown(q) == ShowsIn("inserted", TokensOf(q.text), before, after)
      strings == SelectSeq(With(e.quoted, "inserted"), shown)
  IN [n \in DOMAIN strings |-> TokensOf(strings[n].text)]

-----------------------------------------------------------------------------
(* What a change shows of an amendment's words.                            *)

(* The fields of a change as they read, and with later words taken out.    *)
Read(fields) == [n \in DOMAIN fields |-> WordsOf(fields[n])]

Undone(fields, insertions) ==
  [n \in DOMAIN fields |->
     SelectSeq(Without(TokensOf(fields[n]), insertions), IsWord)]

ShownAs(block, below, every, undone) ==
  LET own == Head(every)
      long(field) == Len(field) > FewWords
      ownCounts == \/ below = <<>> \/ long(own)
                   \/ \E field \in Range(Read(below)) :
                        long(field) /\ RunsInOrder(block, <<own, field>>)
      size(runs) == Len(FlattenSeq(runs))
  IN IF RunsInOrder(block, every) THEN <<size(every), TRUE>>
     ELSE IF ownCounts /\ ContainsRun(block, own) THEN <<Len(own), TRUE>>
     ELSE IF RunsInOrder(block, undone) THEN <<size(undone), FALSE>>
     ELSE IF ownCounts /\ ContainsRun(block, Head(undone))
       THEN <<Len(Head(undone)), FALSE>>
     ELSE IF SpelledInOrder(block, every) THEN <<size(every), TRUE>>
     ELSE <<>>

(* Readings::shown_in: how many of its words a block shows, and whether it *)
(* is all the provision prints; <<>> when it shows none.                   *)
ShownByBlock(block, change, insertions) ==
  ShownAs(block, change.below, Read(change.fields),
          Undone(change.fields, insertions))

(* What a block and each other way to print it show.                       *)
ShownByWays(b, change, insertions) ==
  Said([n \in 1..1 + Len(b.printed) |->
          ShownByBlock(WordsOf((<<b.text>> \o b.printed)[n]), change, insertions)])

ShownBlock(words, found) ==
  [words |-> words, enacted |-> TRUE, rewrote |-> found[2],
   few |-> found[1] <= FewWords /\ Len(words) > found[1], adds |-> TRUE]

ShownBlocks(e, change, insertions) ==
  LET ways(b) == ShownByWays(b, change, insertions)
      blocks == SelectSeq(e.enacted, LAMBDA b : ways(b) # <<>>)
  IN [n \in DOMAIN blocks |-> ShownBlock(WordsOf(blocks[n].text), Head(ways(blocks[n])))]

(* Quoted::is_shown_as, of each way a string is looked for.                *)
IsSeen(q, change, before, after, insertions) ==
  \/ ShowsIn(q.direction, TokensOf(q.text), before, after)
  \/ ShowsIn(q.direction, TokensOf(q.text),
             Without(before, insertions), Without(after, insertions))
  \/ ShowsIn(q.direction, q.text, change.before, change.after)

ShownStrings(e, change, before, after, insertions) ==
  LET strings == SelectSeq(e.quoted,
                   LAMBDA q : IsSeen(q, change, before, after, insertions))
  IN [n \in DOMAIN strings |->
        [words |-> TokensOf(strings[n].text), enacted |-> FALSE,
         rewrote |-> FALSE, few |-> FALSE,
         adds |-> strings[n].direction = "inserted"]]

(* Common words alone show nothing, unless they are the whole change.      *)
UnlessCommon(shown, before, after) ==
  LET stated == UNION {Range(s.words) : s \in Range(shown)}
      common == \A s \in Range(shown) :
                  \A word \in Range(s.words) : IsWord(word) => word \in Common
  IN IF common /\ ~(DifferingWords(before, after) \subseteq stated)
     THEN <<>> ELSE shown

ShownWithout(e, change, before, after, insertions) ==
  UnlessCommon(ShownStrings(e, change, before, after, insertions)
                 \o ShownBlocks(e, change, insertions), before, after)

(* QuotedWords::shown: the strings and blocks a change shows, read with    *)
(* what the same law's later amendments inserted taken out again.          *)
ShownWords(e, change, later) ==
  LET before == TokensOf(change.before)
      after == TokensOf(change.after)
  IN ShownWithout(e, change, before, after,
       FlattenSeq([n \in DOMAIN later |-> InsertedIn(later[n], before, after)]))

(* Shown::is_within: these words, or more words around them.               *)
IsWithin(shown, other) == ContainsRun(other.words, shown.words)

(* overlap: of the words that differ, how many the amendment states; out   *)
(* of how many.                                                            *)
Overlap(e, change) ==
  LET b == Range(WordsOf(change.before))
      a == Range(WordsOf(change.after))
      differing == (b \ a) \cup (a \ b)
  IN <<Cardinality(differing \cap StatedWords(e)), Cardinality(differing)>>
=============================================================================
