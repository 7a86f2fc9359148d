----------------------------- MODULE MCTemplates -----------------------------
(* Instances of Templates: what each CHI uses, and the files.              *)
EXTENDS Templates

NoFiles == <<>>
UsesT == [c \in CHIs |-> <<"t">>]
=============================================================================
