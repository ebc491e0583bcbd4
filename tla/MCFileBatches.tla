---------------------------- MODULE MCFileBatches ----------------------------
(* Small instances of FileBatches for TLC. *)
EXTENDS FileBatches, TLC

\* Two identities: one one-byte file, or an empty and a one-byte file.
SmallManifests == {<< <<1>> >>, << <<>>, <<2>> >>}
SmallChunks == {<<1>>, <<2>>}

\* One identity: files of two and three bytes, chunks that continue, repeat,
\* overlap or contradict what is staged.
LargeManifests == {<< <<1, 2, 1>>, <<2>> >>}
LargeChunks == {<<>>, <<1>>, <<2>>, <<1, 2>>, <<2, 1>>}

Symmetry == Permutations(Batches)
=============================================================================
