-------------------------- MODULE MCDocumentStore --------------------------
(***************************************************************************)
(* DocumentStore for TLC.  Contents are the same for all documents, so     *)
(* jobs, workers, documents and asset ids are interchangeable.             *)
(***************************************************************************)
EXTENDS DocumentStore, TLC

AllImages == [d \in Documents |-> "image"]
AllPdfs == [d \in Documents |-> "pdf"]

Interchangeable ==
  Permutations(Jobs) \union Permutations(Workers)
    \union Permutations(Documents) \union Permutations(AssetIds)
=============================================================================
