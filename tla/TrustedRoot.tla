---------------------------- MODULE TrustedRoot ----------------------------
(***************************************************************************)
(* How the certificates and keys in a directory become the targets of a    *)
(* TUF repository: the first half of initTUFRepo                           *)
(* (tools/tuf/cmd/tuf/server/main.go), SplitCertChain                      *)
(* (tools/tuf/pkg/certs/certs.go), and CreateRepoWithOptions with          *)
(* constructTrustedRoot (tools/tuf/pkg/repo/repo.go).                      *)
(*                                                                         *)
(* A file name is a stem, of which only the words it contains and its      *)
(* place in the alphabet matter, and the decimal digits that follow it.    *)
(* Of the bytes of a file there are its PEM blocks, certificates or public *)
(* keys, and where its lines end.                                          *)
(***************************************************************************)
EXTENDS Integers, Sequences, FiniteSets

CONSTANTS
    Directories  \* what -file-dir may hold: functions from names to bytes

VARIABLES
    metadataTargets, trustedRoot, signingConfig,  \* the flags
    dir,      \* the directory
    unread,   \* the names that initTUFRepo has still to read
    files,    \* files, the map from target names to bytes
    state,    \* "read", "failed" (the program ends), "made"
    targets   \* the targets of the new repository

opts == <<metadataTargets, trustedRoot, signingConfig>>
rootVars == <<opts, dir, unread, files, state, targets>>

----------------------------------------------------------------------------
\* File names.

\* Stems in the order of their bytes.
Stems == <<"..data", "ctfe", "ctfe_2022", "fulcio_intermediate", "fulcio_v1",
           "notes", "rekor", "rekor_2022", "tsa.certchain", "tsa_intermediate",
           "tsa_leaf", "tsa_root">>

StemsWith ==
    [fulcio |-> {"fulcio_intermediate", "fulcio_v1"},
     rekor |-> {"rekor", "rekor_2022"},
     ctfe |-> {"ctfe", "ctfe_2022"},
     tsa |-> {"tsa.certchain", "tsa_intermediate", "tsa_leaf", "tsa_root"},
     intermediate |-> {"fulcio_intermediate", "tsa_intermediate"},
     leaf |-> {"tsa_leaf"}]

Name(stem) == [stem |-> stem, digits |-> <<>>]

\* %d, for numbers below 100.
Numbered(stem, n) ==
    [stem |-> stem, digits |-> IF n < 10 THEN <<n>> ELSE <<n \div 10, n % 10>>]

Contains(name, word) == name.stem \in StemsWith[word]

\* After the digits comes a dot, which is smaller than any digit.
DigitsLess(a, b) ==
    \E k \in DOMAIN b :
        /\ \A j \in 1..(k - 1) : j \in DOMAIN a /\ a[j] = b[j]
        /\ k \in DOMAIN a => a[k] < b[k]

NameLess(m, n) ==
    LET Place(name) == CHOOSE i \in DOMAIN Stems : Stems[i] = name.stem
    IN  \/ Place(m) < Place(n)
        \/ m.stem = n.stem /\ DigitsLess(m.digits, n.digits)

Sorted(names) ==
    [i \in 1..Cardinality(names) |->
        CHOOSE n \in names : Cardinality({m \in names : NameLess(m, n)}) = i - 1]

----------------------------------------------------------------------------
\* Bytes.

Certificate(id, kind) == [block |-> "certificate", id |-> id, kind |-> kind]
PublicKey(id, alg) == [block |-> "key", id |-> id, alg |-> alg]

\* A file: its blocks, whether its last line ends, and whether some block does
\* not start a line.  pem.Decode then loses that block together with the one
\* before it, which is an error for every caller.
Pem(blocks, ended) == [blocks |-> blocks, ended |-> ended, glued |-> "no"]

NoBytes == Pem(<<>>, "no")

Join(a, b) ==
    [blocks |-> a.blocks \o b.blocks,
     ended |-> IF b = NoBytes THEN a.ended ELSE b.ended,
     glued |-> IF \/ "yes" \in {a.glued, b.glued}
                  \/ a.blocks # <<>> /\ a.ended = "no" /\ b.blocks # <<>>
               THEN "yes" ELSE "no"]

Concatenated(seqs) ==
    LET result[i \in 0..Len(seqs)] ==
            IF i = 0 THEN <<>> ELSE result[i - 1] \o seqs[i]
    IN  result[Len(seqs)]

\* The files one after the other, each followed by a line end.
Lines(parts) ==
    [blocks |-> Concatenated([i \in DOMAIN parts |-> parts[i].blocks]),
     ended |-> IF parts = <<>> THEN "no" ELSE "yes",
     glued |-> IF \E i \in DOMAIN parts : parts[i].glued = "yes" THEN "yes" ELSE "no"]

\* MarshalCertificateToPEM, followed by strings.TrimSpace.
Trimmed(cert) == Pem(<<cert>>, "no")

----------------------------------------------------------------------------
\* SplitCertChain.

NoFiles == [n \in {} |-> NoBytes]

\* Mutant: intermediates are numbered by their place in the chain.
intermediateNameFromOne(i) == Numbered("tsa_intermediate", i)

intermediateName(i) == Numbered("tsa_intermediate", i - 1)

\* Need at least a root and leaf.
TooShort(certs) == Len(certs) < 2

SplitCertChain(certs) ==
    LET inner == 1..(Len(certs) - 2)
    IN  [n \in {Name("tsa_leaf"), Name("tsa_root")} \cup {intermediateName(i) : i \in inner} |->
            IF n = Name("tsa_leaf") THEN Trimmed(certs[1])
            ELSE IF n = Name("tsa_root") THEN Trimmed(certs[Len(certs)])
            ELSE Trimmed(certs[1 + CHOOSE i \in inner : intermediateName(i) = n])]

----------------------------------------------------------------------------
\* constructTrustedRoot.

\* The first of the known types that the name contains.
getTargetUsage(name) ==
    IF Contains(name, "fulcio") THEN "Fulcio"
    ELSE IF Contains(name, "rekor") THEN "Rekor"
    ELSE IF Contains(name, "ctfe") THEN "CTFE"
    ELSE IF Contains(name, "tsa") THEN "TSA"
    ELSE "Unknown"

\* Keys getKeyWithDetails accepts, with the hash it assumes.
HashFunc ==
    [P256 |-> "SHA256", P384 |-> "SHA384", P521 |-> "SHA512",
     RSA2048 |-> "SHA256", RSA3072 |-> "SHA256", RSA4096 |-> "SHA256", Ed25519 |-> "SHA512"]

\* A file without a key is dereferenced as nil, a key of another kind is an
\* error; both end the program.
KeyIsFine(bytes) ==
    /\ bytes.blocks # <<>>
    /\ bytes.blocks[1].block = "key"
    /\ bytes.blocks[1].alg \in DOMAIN HashFunc

pubkeyToTransparencyLogInstance(bytes, url) ==
    LET key == bytes.blocks[1]
    IN  [id |-> key.id, hash |-> HashFunc[key.alg], url |-> url]

rekorURL == "http://rekor.rekor-system.svc"

\* The leaf, if there is one, and the intermediates.
BeforeRoot(leaf, intermediate) == (IF leaf = NoBytes THEN <<>> ELSE <<leaf>>) \o intermediate

\* Mutant: nothing is put before the root.
concatWithoutLineEnd(leaf, intermediate, root) ==
    Join([Lines(BeforeRoot(leaf, intermediate)) EXCEPT !.ended = "no"], root)

concatCertChain(leaf, intermediate, root) ==
    Join(Lines(BeforeRoot(leaf, intermediate)), root)

ChainIsFine(bytes) ==
    /\ bytes.glued = "no"
    /\ \A i \in DOMAIN bytes.blocks : bytes.blocks[i].block = "certificate"

None == [block |-> "none"]

\* The loop looks at the place in the chain, and for the leaf at the CA flag.
certChainToTimestampingAuthority(chain) ==
    LET n == Len(chain)
        first == IF chain[1].kind = "CA" THEN 1 ELSE 2
    IN  [leaf |-> IF first = 1 THEN None ELSE chain[1],
         intermediates |-> SubSeq(chain, first, n - 1),
         root |-> IF first <= n THEN chain[n] ELSE None]

certChainToCertificateAuthority(chain) ==
    [intermediates |-> SubSeq(chain, 1, Len(chain) - 1), root |-> chain[Len(chain)]]

NamesOf(f, usage) == {n \in DOMAIN f : getTargetUsage(n) = usage}

\* The bytes of the files with the given names, sorted by name.
BytesOfAll(f, names) == [i \in 1..Cardinality(names) |-> f[Sorted(names)[i]]]

\* Where only one file is kept the last one counts.
LastOf(f, names) ==
    IF names = {} THEN NoBytes
    ELSE f[CHOOSE n \in names : \A m \in names \ {n} : NameLess(m, n)]

FulcioChain(f) ==
    LET intermediates == {n \in NamesOf(f, "Fulcio") : Contains(n, "intermediate")}
    IN  concatCertChain(NoBytes, BytesOfAll(f, intermediates),
                        LastOf(f, NamesOf(f, "Fulcio") \ intermediates))

TSAChain(f) ==
    LET leaves == {n \in NamesOf(f, "TSA") : Contains(n, "leaf")}
        intermediates == {n \in NamesOf(f, "TSA") \ leaves : Contains(n, "intermediate")}
    IN  concatCertChain(LastOf(f, leaves), BytesOfAll(f, intermediates),
                        LastOf(f, NamesOf(f, "TSA") \ (leaves \cup intermediates)))

TrustedRootIsFine(f) ==
    /\ \A n \in NamesOf(f, "Rekor") \cup NamesOf(f, "CTFE") : KeyIsFine(f[n])
    /\ \A bytes \in {FulcioChain(f), TSAChain(f)} \ {NoBytes} :
          ChainIsFine(bytes) /\ bytes.blocks # <<>>

constructTrustedRoot(f) ==
    LET Authorities(bytes, Make(_)) == IF bytes = NoBytes THEN {} ELSE {Make(bytes.blocks)}
    IN  [fulcio |-> Authorities(FulcioChain(f), certChainToCertificateAuthority),
         tsa |-> Authorities(TSAChain(f), certChainToTimestampingAuthority),
         rekor |-> {pubkeyToTransparencyLogInstance(f[n], rekorURL) : n \in NamesOf(f, "Rekor")},
         ctlog |-> {pubkeyToTransparencyLogInstance(f[n], "") : n \in NamesOf(f, "CTFE")}]

\* The services clients are told to use; the others are of no interest here.
constructSigningConfig == [rekor |-> "http://rekor.rekor-system.svc"]

----------------------------------------------------------------------------
\* The directories.

IsPem(bytes) ==
    /\ bytes = Pem(bytes.blocks, bytes.ended)
    /\ bytes.blocks \in Seq({bytes.blocks[i] : i \in DOMAIN bytes.blocks})

IsChain(bytes) == IsPem(bytes) /\ bytes.blocks # <<>> /\ ChainIsFine(bytes)

\* A file for a public key may hold none, or one of a kind nobody supports.
IsKeyFile(bytes) ==
    /\ IsPem(bytes)
    /\ Len(bytes.blocks) <= 1
    /\ \A i \in DOMAIN bytes.blocks :
          bytes.blocks[i].block = "key" /\ bytes.blocks[i].alg \in DOMAIN HashFunc \cup {"P224"}

KeyStems == StemsWith.rekor \cup StemsWith.ctfe

\* Fulcio's chain is whole, or its intermediates are in files of their own; the
\* TSA's is whole and starts with its leaf.  Neither has more than ten
\* intermediates in files of their own.
IsDirectory(d) ==
    /\ \A n \in DOMAIN d :
          /\ n.stem \notin {"tsa_leaf", "tsa_intermediate", "tsa_root"}
          /\ n.stem \in KeyStems => n = Name(n.stem) /\ IsKeyFile(d[n])
          /\ n.stem \in {"fulcio_v1", "tsa.certchain"} => n = Name(n.stem) /\ IsChain(d[n])
          /\ n.stem = "tsa.certchain" => d[n].blocks[1].kind = "leaf" /\ Len(d[n].blocks) <= 12
          /\ n.stem = "fulcio_intermediate" => IsChain(d[n]) /\ Len(d[n].blocks) = 1
    /\ \E k \in 0..10 : {n \in DOMAIN d : n.stem = "fulcio_intermediate"}
                            = {Numbered("fulcio_intermediate", i) : i \in 0..(k - 1)}

ASSUME DirectoriesAssumption == \A d \in Directories : IsDirectory(d)

----------------------------------------------------------------------------
\* initTUFRepo up to CreateRepoWithOptions.

NoTargets == [files |-> {}, trustedRoot |-> {}, signingConfig |-> {}]

RootInit ==
    /\ metadataTargets \in BOOLEAN
    /\ trustedRoot \in BOOLEAN
    /\ signingConfig \in BOOLEAN
    /\ dir \in Directories
    /\ unread = DOMAIN dir
    /\ files = NoFiles
    /\ state = "read"
    /\ targets = NoTargets

\* Files of the volume itself, such as ..data, are no targets.
Skipped(name) == name.stem = "..data"

Insert(f, g) == [n \in DOMAIN f \cup DOMAIN g |-> IF n \in DOMAIN g THEN g[n] ELSE f[n]]

\* One round of the loop over the directory, in the order of ReadDir.
ReadFile ==
    /\ state = "read"
    /\ \E name \in unread :
          /\ \A other \in unread \ {name} : NameLess(name, other)
          /\ unread' = unread \ {name}
          /\ \/ Skipped(name) /\ UNCHANGED <<files, state>>
             \/ /\ ~ Skipped(name) /\ Contains(name, "tsa")
                /\ ~ ChainIsFine(dir[name]) \/ TooShort(dir[name].blocks)
                /\ state' = "failed"
                /\ UNCHANGED files
             \/ /\ ~ Skipped(name) /\ Contains(name, "tsa")
                /\ ChainIsFine(dir[name]) /\ ~ TooShort(dir[name].blocks)
                /\ files' = Insert(files, SplitCertChain(dir[name].blocks))
                /\ UNCHANGED state
             \/ /\ ~ Skipped(name) /\ ~ Contains(name, "tsa")
                /\ files' = Insert(files, [n \in {name} |-> dir[name]])
                /\ UNCHANGED state
    /\ UNCHANGED <<opts, dir, targets>>

CreateRepoWithOptions ==
    /\ state = "read"
    /\ unread = {}
    /\ IF (metadataTargets \/ trustedRoot) /\ (trustedRoot => TrustedRootIsFine(files))
       THEN /\ state' = "made"
            /\ targets' =
                 [files |-> IF metadataTargets
                            THEN {[name |-> n, usage |-> getTargetUsage(n)] : n \in DOMAIN files}
                            ELSE {},
                  trustedRoot |-> IF trustedRoot THEN {constructTrustedRoot(files)} ELSE {},
                  signingConfig |-> IF signingConfig THEN {constructSigningConfig} ELSE {}]
       ELSE state' = "failed" /\ UNCHANGED targets
    /\ UNCHANGED <<opts, dir, unread, files>>

RootNext == ReadFile \/ CreateRepoWithOptions

RootSpec == RootInit /\ [][RootNext]_rootVars

----------------------------------------------------------------------------
\* Properties.

\* What the directory holds, without its names being parsed or sorted.
BytesOf(stem) == IF Name(stem) \in DOMAIN dir THEN dir[Name(stem)] ELSE NoBytes
GivenTSA == BytesOf("tsa.certchain").blocks
GivenFulcio ==
    LET split == {n \in DOMAIN dir : n.stem = "fulcio_intermediate"}
    IN  [i \in 1..Cardinality(split) |-> dir[Numbered("fulcio_intermediate", i - 1)].blocks[1]]
        \o BytesOf("fulcio_v1").blocks
GivenKeys(stems) ==
    {dir[n].blocks[1].id : n \in {Name(s) : s \in stems} \cap DOMAIN dir}

\* trusted_root.json describes the chains and keys it was made from.  A chain
\* that was split into files, which are then sorted by name and joined again,
\* has its certificates in their old order and roles, for up to ten
\* intermediates (the comment in constructTrustedRoot says "less than 10");
\* Fulcio's chain may come whole or in files; every key file is a log; and the
\* signing configuration sends clients to a Rekor they trust.
TrustedRootMatches ==
    \A tr \in targets.trustedRoot :
        /\ LET n == Len(GivenTSA)
           IN  tr.tsa = IF n = 0 THEN {} ELSE
                 {[leaf |-> GivenTSA[1], intermediates |-> SubSeq(GivenTSA, 2, n - 1), root |-> GivenTSA[n]]}
        /\ LET n == Len(GivenFulcio)
           IN  tr.fulcio = IF n = 0 THEN {} ELSE
                 {[intermediates |-> SubSeq(GivenFulcio, 1, n - 1), root |-> GivenFulcio[n]]}
        /\ {l.id : l \in tr.rekor} = GivenKeys({"rekor", "rekor_2022"})
        /\ {l.id : l \in tr.ctlog} = GivenKeys({"ctfe", "ctfe_2022"})
        /\ \A l \in tr.rekor, c \in targets.signingConfig : l.url = c.rekor

\* A repository is made of everything that makes sense and of nothing else:
\* of a directory with any chains and supported keys, if some target is asked
\* for; not with a TSA chain of a single certificate; and an unsupported key
\* matters only to the trusted root.
MadeOfValidFiles ==
    state # "read" =>
        (state = "made" <=>
            /\ metadataTargets \/ trustedRoot
            /\ Name("tsa.certchain") \in DOMAIN dir => Len(GivenTSA) >= 2
            /\ trustedRoot => \A s \in {"rekor", "rekor_2022", "ctfe", "ctfe_2022"} :
                  Name(s) \in DOMAIN dir =>
                     /\ Len(BytesOf(s).blocks) = 1
                     /\ BytesOf(s).blocks[1].alg # "P224")

============================================================================
