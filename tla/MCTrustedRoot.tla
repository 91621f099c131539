--------------------------- MODULE MCTrustedRoot ---------------------------
(***************************************************************************)
(* Directories: Fulcio with a whole chain or with up to ten intermediates  *)
(* in files of their own, a TSA chain of up to twelve certificates, keys   *)
(* of supported kinds, of another kind and no key at all.                  *)
(***************************************************************************)
EXTENDS TrustedRoot

Chain(who, n) == [i \in 1..n |-> Certificate(<<who, i>>, IF who = "fulcio" \/ i > 1 THEN "CA" ELSE "leaf")]

Fulcio(n, how, last) ==
    LET chain == Chain("fulcio", n)
    IN  IF n = 0 THEN NoFiles
        ELSE IF how = "whole" THEN [f \in {Name("fulcio_v1")} |-> Pem(chain, last)]
        ELSE [f \in {Name("fulcio_v1")} \cup {Numbered("fulcio_intermediate", i - 1) : i \in 1..(n - 1)} |->
                IF f = Name("fulcio_v1") THEN Pem(<<chain[n]>>, last)
                ELSE Pem(<<chain[CHOOSE i \in 1..(n - 1) : Numbered("fulcio_intermediate", i - 1) = f]>>, last)]

TSA(n) == IF n = 0 THEN NoFiles ELSE [f \in {Name("tsa.certchain")} |-> Pem(Chain("tsa", n), "yes")]

Keys(who, algs) ==
    [f \in {Name(who[i]) : i \in DOMAIN algs} |->
        LET i == CHOOSE j \in DOMAIN algs : Name(who[j]) = f
        IN  IF algs[i] = "garbage" THEN NoBytes ELSE Pem(<<PublicKey(f.stem, algs[i])>>, "yes")]

Volume == [f \in {Name("..data"), Name("notes")} |-> NoBytes]

MCDirectories ==
    {Insert(Insert(Insert(Insert(Fulcio(n, how, last), TSA(m)), Keys(<<"rekor", "rekor_2022">>, r)),
                   Keys(<<"ctfe", "ctfe_2022">>, c)), Volume) :
        n \in {0, 1, 2, 3, 11}, how \in {"whole", "split"}, last \in {"no", "yes"},
        m \in {0, 1, 2, 3, 12},
        r \in {<<>>, <<"Ed25519", "P256">>, <<"garbage">>}, c \in {<<"RSA2048">>, <<"P521", "P224">>}}

============================================================================
