-------------------------- MODULE MCPatchPreparation --------------------------
(* Small files and budgets for PatchPreparation: a finding before a blank      *)
(* line or past the end of its file, a byte order mark, lines that end in two  *)
(* ways, budgets that leave room for all, some or none of the context, and     *)
(* answers with and without a final newline, blank, unchanged, out of place.   *)
EXTENDS PatchPreparation, TLC

a == <<"a">>
long == <<"l", "o", "n", "g">>

File(lines, mark, mixed) == [lines |-> lines, mark |-> mark, mixed |-> mixed]
Source(file, first, last, tokens, limit) ==
  [file |-> file, finding |-> [first |-> first, last |-> last],
   tokens |-> tokens, limit |-> limit]

MCSources ==
  LET plain == File(<<a, Blank, long, a>>, FALSE, FALSE)
      marked == File(<<a, Blank, long>>, TRUE, FALSE)
      mixed == File(<<a, long>>, FALSE, TRUE)
  IN {Source(plain, 1, 2, 100, 8), Source(plain, 2, 2, 12, 8), Source(plain, 3, 3, 12, 8),
      Source(plain, 3, 3, 13, 1), Source(plain, 3, 3, 9, 8), Source(plain, 1, 1, 100, 0),
      Source(marked, 1, 2, 100, 8), Source(marked, 3, 4, 100, 8),
      Source(mixed, 1, 1, 100, 8)}

MCTexts ==
  {<<Blank>>, <<Blank, Blank>>, <<a>>, <<a, Blank>>, <<a, Blank, Blank>>, <<long, a>>}

Answer(first, last, text, bound) ==
  [first |-> first, last |-> last, text |-> text, bound |-> bound]

MCAnswers ==
  {Answer(1, 2, text, TRUE) : text \in MCTexts}
    \cup {Answer(2, 2, text, TRUE) : text \in MCTexts}
    \cup {Answer(3, 4, <<a>>, TRUE), Answer(2, 3, <<Blank>>, TRUE),
          Answer(2, 2, <<long>>, FALSE), Answer(2, 1, <<a>>, TRUE)}

MCBlocks == {Unreadable, <<a>>, <<long, long>>}

PageSymmetry == Permutations(Pages)
=============================================================================
