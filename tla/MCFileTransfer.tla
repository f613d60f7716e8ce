--------------------------- MODULE MCFileTransfer ---------------------------
EXTENDS FileTransfer
MCFile == <<"file1", "file2">>
=============================================================================
