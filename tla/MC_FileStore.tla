---------------------------- MODULE MC_FileStore ----------------------------
(* Names of namespaces in the models of FileStore that TLC checks.         *)
EXTENDS FileStore

\* "a", "a/b" and "": three files.
ApartNames == {<<"a">>, <<"a", "/", "b">>, <<>>}
=============================================================================
