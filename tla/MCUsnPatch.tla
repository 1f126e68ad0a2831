----------------------------- MODULE MCUsnPatch -----------------------------
(***************************************************************************)
(* Small instances of UsnPatch: a directory with a file in it and one free  *)
(* file record; two names.                                                  *)
(***************************************************************************)
EXTENDS UsnPatch

MCNames == {"doc", "doc.txt"}
MCChars == [n \in {"doc", "doc.txt", "."} |-> CASE n = "doc" -> 3 [] n = "doc.txt" -> 7 [] n = "." -> 1]
MCExt == [n \in {"doc", "doc.txt", "."} |-> IF n = "doc.txt" THEN "txt" ELSE "none"]
MCTrigrams ==
  [n \in {"doc", "doc.txt", "."} |-> CASE n = "doc" -> {"doc"} [] n = "doc.txt" -> {"doc", "txt"} [] n = "." -> {}]

File(n, p, isDir) == [name |-> n, parent |-> p, dir |-> isDir]
MCVolumes == {[f \in Frs |-> CASE f = 1 -> File("doc", Root, TRUE)
                               [] f = 2 -> File("doc", 1, TRUE)
                               [] OTHER -> Free]}

=============================================================================
