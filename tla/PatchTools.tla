----------------------------- MODULE PatchTools -----------------------------
(***************************************************************************)
(* tools/patch_tools.py: unified diffs. A patch is [blocks, blank, cut]: a *)
(* block is [header, path, kind, from, to, lines] with the file named by   *)
(* its diff --git line and by its ---/+++ lines, and kind is "change",     *)
(* "create" (or delete, both name /dev/null), or "bare" (no ---/+++ lines  *)
(* or no hunk, as in binary patches). blank says that the last line is an  *)
(* empty context line, cut that such a line was lost. Fences, JSON and     *)
(* prose around a patch are gone after the first cleaning and are left     *)
(* out; so are patches whose own text contains such a JSON object. The     *)
(* context of a hunk is the whole file.                                    *)
(***************************************************************************)
EXTENDS ReplacementTools

CONSTANTS NoPath,        \* a header or ---/+++ lines that are missing
          Order          \* the files in the order of git diff

(* git diff lists every file once.                                         *)
ASSUME PatchAssumption ==
  /\ NoPath \notin Path
  /\ Order \in Seq(Path)
  /\ \A f \in Path : \E n \in DOMAIN Order : Order[n] = f
  /\ \A m, n \in DOMAIN Order : Order[m] = Order[n] => m = n

NoPatchText == [blocks |-> <<>>, blank |-> FALSE, cut |-> FALSE]

FileChange(header, path, from, to, lines) ==
  [header |-> header, path |-> path, kind |-> "change", from |-> from, to |-> to, lines |-> lines]

(* splitlines() takes the carriage returns away. *)
LinesOf(block) ==
  IF block.kind = "change"
  THEN FileChange(block.header, block.path, Read(block.from), Read(block.to), block.lines) ELSE block

(* normalize_git_diff_headers() for one block. *)
Normalized(block) ==
  LET bare == [header |-> block.header, path |-> NoPath, kind |-> "bare",
               from |-> block.from, to |-> block.to, lines |-> 0]
      change == FileChange(block.path, block.path, block.from, block.to, block.lines)
  IN  IF block.kind # "change" \/ block.header = block.path THEN <<block>>
      ELSE IF block.header = NoPath THEN <<change>> ELSE <<bare, change>>

(* clean_patch_text(): str.strip() also takes an empty context line. *)
Clean(patch) ==
  LET blocks[n \in 0..Len(patch.blocks)] ==
        IF n = 0 THEN <<>> ELSE blocks[n - 1] \o Normalized(LinesOf(patch.blocks[n]))
  IN  [blocks |-> blocks[Len(patch.blocks)], blank |-> FALSE, cut |-> patch.cut \/ patch.blank]

(* validate_patch_format() *)
ValidFormat(patch) ==
  /\ patch.blocks # <<>>
  /\ \A n \in DOMAIN patch.blocks :
       LET block == patch.blocks[n]
       IN  /\ block.kind = "change"
           /\ block.header \in Safe /\ block.path \in Safe

PatchPaths(patch) == {patch.blocks[n].header : n \in DOMAIN patch.blocks} \ {NoPath}

PatchLines(patch) ==
  LET sum[n \in 0..Len(patch.blocks)] == IF n = 0 THEN 0 ELSE sum[n - 1] + patch.blocks[n].lines
  IN  sum[Len(patch.blocks)]

(* _validate_edit_policy() *)
ValidPolicy(patch) == PathsAllowed(PatchPaths(patch)) /\ LinesAllowed(PatchLines(patch))

(* git apply: all of it or nothing; a patch with a cut hunk is corrupt.    *)
GitApply(files, patch) ==
  LET after[n \in 0..Len(patch.blocks)] ==
        IF n = 0 THEN [files |-> files, ok |-> ~patch.cut]
        ELSE LET done == after[n - 1]
                 block == patch.blocks[n]
             IN  IF done.ok /\ done.files[block.path] = block.from
                 THEN [files |-> [done.files EXCEPT ![block.path] = block.to], ok |-> TRUE]
                 ELSE [files |-> files, ok |-> FALSE]
  IN  after[Len(patch.blocks)]

(* What git apply may leave when its time limit kills it: it removes the   *)
(* files it changes before it writes them one by one. A file cut short     *)
(* counts as removed.                                                      *)
ApplyKilled(files, patch) ==
  LET target == GitApply(files, patch).files
  IN  {[f \in Path |-> IF f \in written THEN target[f]
                       ELSE IF f \in removed THEN Unreadable ELSE files[f]] :
         written \in SUBSET PatchPaths(patch), removed \in SUBSET PatchPaths(patch)}

(* Mutant: the policy is not consulted. *)
AcceptedUnlimited(files, patch) == ValidFormat(Clean(patch)) /\ GitApply(files, Clean(patch)).ok

(* check_patch() succeeds; apply_patch() makes the same checks again. *)
Accepted(files, patch) ==
  LET cleaned == Clean(patch)
  IN  ValidFormat(cleaned) /\ ValidPolicy(cleaned) /\ GitApply(files, cleaned).ok

(* git diff between two states of the workspace, which differ by one line  *)
(* of a file, or by all of its line ends.                                  *)
EndsBlank(text) == text # <<>> /\ text[Len(text)] = "lf" /\ (Len(text) > 1 => text[Len(text) - 1] = "lf")

Block(path, from, to) ==
  [header |-> path, path |-> path,
   kind |-> IF from = Unreadable \/ to = Unreadable THEN "create" ELSE "change",
   from |-> from, to |-> to,
   lines |-> IF from = Unreadable \/ Read(from) = from THEN 2 ELSE LineCount(from) + LineCount(to)]

Diff(from, to) ==
  LET changed[n \in 0..Len(Order)] ==
        IF n = 0 THEN <<>>
        ELSE LET f == Order[n]
             IN  IF from[f] # to[f] THEN Append(changed[n - 1], Block(f, from[f], to[f]))
                 ELSE changed[n - 1]
      blocks == changed[Len(Order)]
      last == blocks[Len(blocks)]
  IN  [blocks |-> blocks, cut |-> FALSE,
       blank |-> blocks # <<>> /\ last.kind = "change" /\ EndsBlank(last.from) /\ EndsBlank(last.to)]
=============================================================================
