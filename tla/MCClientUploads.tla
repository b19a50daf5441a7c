--------------------------- MODULE MCClientUploads ---------------------------
\* A file by itself, one inside a directory, and one of no bytes.
EXTENDS ClientUploads
CONSTANTS c1, c0
MCFiles == {[content |-> c1, path |-> NoPath], [content |-> c1, path |-> Path],
            [content |-> c0, path |-> NoPath]}
=============================================================================
