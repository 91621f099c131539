---------------------------- MODULE CTLogConfig ----------------------------
(***************************************************************************)
(* The configuration of the CT log (tools/ctlog/pkg/ctlog/config.go): the  *)
(* list of trusted Fulcio roots and the conversions between a Config and   *)
(* the Data map of the secret that the CT log server mounts.               *)
(*                                                                         *)
(* A key pair is its identity, a number.  A certificate is a model value,  *)
(* a PEM chain a sequence of them that ends in the root, and Unparsable a  *)
(* chain that does not decode.  The log prefix, the address of Trillian    *)
(* and the password are fixed flags of the job and are left out.           *)
(***************************************************************************)
EXTENDS Naturals, Sequences, Functions

CONSTANT FulcioKeys  \* the keys fulcio-0, fulcio-1, ... in this order

ASSUME FulcioKeysAssumption ==
    /\ FulcioKeys \in Seq(Range(FulcioKeys))
    /\ \A i, j \in DOMAIN FulcioKeys : FulcioKeys[i] = FulcioKeys[j] => i = j
    /\ {"config", "private", "public", "rootca"} \cap Range(FulcioKeys) = {}

Unparsable == <<>>

\* The last certificate of a chain.
RootOf(chain) == chain[Len(chain)]

----------------------------------------------------------------------------
\* The list of trusted roots.

\* Mutant: the first certificate of the chain is taken for the root.
extractFulcioLeaf(chain) == Head(chain)

extractFulcioRoot(chain) == RootOf(chain)

\* A chain that does not decode leaves the list as it is: the error is logged.
AddFulcioRoot(c, chain) ==
    IF chain = Unparsable \/ extractFulcioRoot(chain) \in Range(c.roots)
    THEN c
    ELSE [c EXCEPT !.roots = Append(@, extractFulcioRoot(chain))]

----------------------------------------------------------------------------
\* Conversions.

\* Mutant: the files named in the configuration are numbered from 1, the keys
\* of the secret from 0.
RootsPemFileOffByOne(c) == [i \in DOMAIN c.roots |-> FulcioKeys[i + 1]]

RootsPemFile(c) == [i \in DOMAIN c.roots |-> FulcioKeys[i]]

\* The map m with the entries of more that it does not have: the @@ of module
\* TLC, whose definition the provers do not see.
With(m, more) ==
    [k \in DOMAIN m \cup DOMAIN more |-> IF k \in DOMAIN m THEN m[k] ELSE more[k]]

\* Every call encrypts the private key anew: enc tells the results apart.
marshalSecrets(c, enc) ==
    With([private |-> [key |-> c.key, enc |-> enc], public |-> c.key],
         [k \in {FulcioKeys[i] : i \in DOMAIN c.roots} |->
             c.roots[CHOOSE i \in DOMAIN c.roots : FulcioKeys[i] = k]])

MarshalConfig(c, enc) ==
    With([config |-> [logID |-> c.logID, roots |-> RootsPemFile(c), public |-> c.key]],
         marshalSecrets(c, enc))

\* Mutant: the roots of a legacy secret are not looked for.
FulcioRootsOnly(m) == {m[k] : k \in DOMAIN m \cap Range(FulcioKeys)}

\* uniqueFulcioCerts
FulcioRoots(m) == {m[k] : k \in DOMAIN m \cap ({"rootca"} \cup Range(FulcioKeys))}

\* The lists that have every root of S once.
Listings(S) == UNION {Bijection(1..n, S) : n \in 0..Len(FulcioKeys)}

\* Mutant: the key pair is not decoded.
UnmarshalWithoutKey(m) ==
    {[key |-> 0, logID |-> m.config.logID, roots |-> s] : s \in Listings(FulcioRoots(m))}

\* The roots come out of a Go map, in any order.
Unmarshal(m) ==
    {[key |-> m.private.key, logID |-> m.config.logID, roots |-> s] :
        s \in Listings(FulcioRoots(m))}

============================================================================
