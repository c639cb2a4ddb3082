---------------------------- MODULE ReviewInputs ----------------------------
(***************************************************************************)
(* What a review is made from: the changed files as Git lists them, their    *)
(* kinds and risks, the choice of files and of the diff within the budgets,   *)
(* the guidance of the repository, the packing of a prompt, and the places    *)
(* that a finding may name.                                                 *)
(***************************************************************************)
EXTENDS FiniteSetsExt, Sequences

-----------------------------------------------------------------------------
(* Revisions.                                                               *)

NoReference == "no_reference"

(* Tried in this order if no base branch is named. *)
DefaultBases ==
  <<"symbolic_head", "origin/main", "main", "origin/master", "master">>

BaseReference(named, found) ==
  LET known == {i \in DOMAIN DefaultBases : DefaultBases[i] \in found} IN
  IF named # NoReference
  THEN IF named \in found THEN named ELSE NoReference
  ELSE IF known = {} THEN NoReference ELSE DefaultBases[Min(known)]

-----------------------------------------------------------------------------
(* Changed files.  One has the mode it had and the mode it has, and counts of *)
(* changed lines unless it is binary.                                        *)
Modes == {"regular", "link", "submodule", "absent"}

(* Words in the path that make a change of it a risk, or less of one. *)
Traits == {"metadata", "delivery", "sensitive", "operation", "test"}

ChangedFile ==
  [old : Modes, new : Modes, binary : BOOLEAN, traits : SUBSET Traits,
   lines : {0, 100, 500}, included : BOOLEAN, bytes : Nat \ {0}]

FileKind(file) ==
  LET mode == IF file.new = "absent" THEN file.old ELSE file.new IN
  CASE mode = "link" -> "symlink"
    [] mode = "submodule" -> "submodule"
    [] OTHER -> IF file.binary THEN "binary" ELSE "text"

Structural(file) == file.old # file.new

Weight(trait) ==
  CASE trait = "metadata" -> 35
    [] trait = "delivery" -> 30
    [] trait = "sensitive" -> 25
    [] trait = "operation" -> 15

Risk(file) ==
  LET raised == 10 + SumSet({Weight(t) : t \in file.traits \ {"test"}})
                  + (IF Structural(file) THEN 10 ELSE 0)
                  + (IF FileKind(file) # "text" THEN 20 ELSE 0)
                  + (CASE file.lines = 500 -> 20 [] file.lines = 100 -> 10 [] OTHER -> 0)
      score == IF "test" \in file.traits THEN raised - 10 ELSE raised
  IN Min({100, score})

(* files is a sequence in the order of paths.  The riskiest come first. *)
Included(files) == {i \in DOMAIN files : files[i].included}
Ahead(files, i, j) ==
  \/ Risk(files[i]) > Risk(files[j])
  \/ Risk(files[i]) = Risk(files[j]) /\ i < j
Rank(files, i) == 1 + Cardinality({j \in Included(files) : Ahead(files, j, i)})
Selected(files, fileBudget) == {i \in Included(files) : Rank(files, i) <= fileBudget}

(* The bytes of the diff after each selected file, in their order. *)
DiffBytes(files, selected, room) ==
  LET spent[n \in 0..Cardinality(selected)] ==
        IF n = 0 THEN 0
        ELSE LET file == files[CHOOSE i \in selected : Rank(files, i) = n]
                 all == spent[n - 1] + file.bytes
             IN IF FileKind(file) = "text" /\ all <= room THEN all ELSE spent[n - 1]
  IN spent

InDiff(files, selected, room) ==
  LET spent == DiffBytes(files, selected, room) IN
  {i \in selected : spent[Rank(files, i)] # spent[Rank(files, i) - 1]}

-----------------------------------------------------------------------------
(* The instructions of the repository: regular files of valid text, as many   *)
(* as fit, in a fixed order.                                                *)
Document == [regular : BOOLEAN, text : BOOLEAN, bytes : Nat]

Guidance(documents, room) ==
  LET spent[n \in 0..Len(documents)] ==
        IF n = 0 THEN 0
        ELSE LET all == spent[n - 1] + documents[n].bytes
             IN IF /\ documents[n].regular /\ documents[n].text
                   /\ spent[n - 1] < room /\ all <= room
                THEN all ELSE spent[n - 1]
  IN \A n \in DOMAIN documents:
       /\ documents[n].regular /\ documents[n].text
       /\ spent[n - 1] < room /\ spent[n - 1] + documents[n].bytes <= room

(* What the pipeline sees of it all. *)
Context(files, documents, budget) ==
  LET selected == Selected(files, budget.files)
      diff == InDiff(files, selected, budget.diff)
  IN [complete |-> diff = DOMAIN files /\ Guidance(documents, budget.guidance),
      empty |-> diff = {},
      risks |-> UNION {files[i].traits : i \in Included(files)}]

-----------------------------------------------------------------------------
(* The security specialist is called for what the policy packs watch.       *)
PolicyRisks(packs) ==
  UNION {CASE pack = "security-core" -> {"sensitive"}
           [] pack = "supply-chain" -> {"metadata"}
           [] pack = "delivery-safety" -> {"delivery", "operation"} : pack \in packs}

RequiresSpecialist(context, packs) == context.risks \cap PolicyRisks(packs) # {}

-----------------------------------------------------------------------------
(* A prompt has texts that can be cut: the diff, the documents of the guidance, *)
(* what the checks printed.  For each number of characters, a text says what    *)
(* that many of them take in UTF-8 (raw), by which texts are compared and cut,  *)
(* and what they take in the prompt (written), where JSON escapes some and      *)
(* invisible ones are spelt out.                                            *)
Nothing == [raw |-> 0, written |-> 0]

Text ==
  {text \in Seq([raw : Nat \ {0}, written : Nat]) :
     \A m, n \in DOMAIN text : m < n => text[m].raw < text[n].raw}

(* metadata is all that cannot be cut; in a prompt that says whether it was cut, *)
(* it is a byte shorter once it was.                                         *)
Prompt ==
  [metadata : Nat \ {0}, tells : BOOLEAN, texts : Seq(Text) \ {<<>>}]

First(text, n) == IF n = 0 THEN Nothing ELSE text[n]

(* What remains of it: characters of each text. *)
Whole(prompt) ==
  [kept |-> [i \in DOMAIN prompt.texts |-> Len(prompt.texts[i])], truncated |-> FALSE]

Remaining(prompt, payload, i) == First(prompt.texts[i], payload.kept[i])

Total(f, last) ==
  LET sum[n \in 0..last] == IF n = 0 THEN 0 ELSE sum[n - 1] + f[n] IN sum[last]

Fixed(prompt, truncated) ==
  prompt.metadata - (IF prompt.tells /\ truncated THEN 1 ELSE 0)

Bytes(prompt, payload) ==
  Fixed(prompt, payload.truncated)
    + Total([i \in DOMAIN prompt.texts |-> Remaining(prompt, payload, i).written],
            Len(prompt.texts))

(* The first of the texts that are longest. *)
Largest(prompt, payload) ==
  Min({i \in DOMAIN prompt.texts :
         \A j \in DOMAIN prompt.texts :
           Remaining(prompt, payload, j).raw <= Remaining(prompt, payload, i).raw})

(* As many characters as fit, of n. *)
Sliced(text, n, room) == Max({m \in 0..n : First(text, m).raw <= room})

Quarter(n) == (n + 3) \div 4

(* While a prompt does not fit, its largest text loses what is too much, at     *)
(* least a quarter of it.                                                   *)
CutOnce(prompt, payload, excess) ==
  LET i == Largest(prompt, payload)
      size == Remaining(prompt, payload, i).raw
      less == Max({excess, Quarter(size)})
  IN [kept |-> [payload.kept EXCEPT
                  ![i] = Sliced(prompt.texts[i], @, Max({0, size - less}))],
      truncated |-> TRUE]

Stuck(prompt, payload) == Remaining(prompt, payload, Largest(prompt, payload)).raw = 0

CutAgain(prompt, payload, room) ==
  LET bytes == Bytes(prompt, payload) IN
  IF bytes <= room \/ Stuck(prompt, payload) THEN payload
  ELSE CutOnce(prompt, payload, bytes - room)

(* What remains after n rounds of the loop. *)
Cuts(prompt, room) ==
  LET cut[n \in 0..Total(Whole(prompt).kept, Len(prompt.texts))] ==
        IF n = 0 THEN Whole(prompt) ELSE CutAgain(prompt, cut[n - 1], room)
  IN cut

Packing(prompt, room) ==
  LET cut == Cuts(prompt, room) IN
  IF Bytes(prompt, Whole(prompt)) <= room THEN "whole"
  ELSE IF \E n \in DOMAIN cut: Bytes(prompt, cut[n]) <= room THEN "cut"
  ELSE "refused"

-----------------------------------------------------------------------------
(* A finding names a line, or lines up to another, of a file of the diff;      *)
(* lines has the changed ones of each file.                                  *)
LocationHolds(finding, lines) ==
  /\ finding.file \in DOMAIN lines
  /\ finding.line \in lines[finding.file]
  /\ finding.last # 0 =>
       finding.line <= finding.last /\ finding.line..finding.last \subseteq lines[finding.file]
=============================================================================
