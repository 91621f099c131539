----------------------------- MODULE TufServer -----------------------------
(***************************************************************************)
(* The TUF server (tools/tuf/cmd/tuf/server/main.go with CreateRepo*,      *)
(* CompressFS and Uncompress of tools/tuf/pkg/repo/repo.go).  A replica    *)
(* makes a new TUF repository, with new keys, in a temporary directory,    *)
(* stores its root and its archive in one secret and its keys in another,  *)
(* unpacks the archive into the target directory, file by file, and serves *)
(* that directory.  The modes init and init-no-overwrite leave the serving *)
(* to a second container, in mode serve, on the same volume.               *)
(*                                                                         *)
(* A repository is a generation, a number.  Its files are written in the   *)
(* order of the archive, which is the order WalkDir visits them in.  Every *)
(* generation is a new repository at version 1, so that its metadata have  *)
(* the names of the earlier ones; its targets are named by the hash of     *)
(* their contents (r.Init(true)) and come to lie beside the earlier ones,  *)
(* which nothing removes.                                                  *)
(***************************************************************************)
EXTENDS SecretReconcile, Sequences

CONSTANTS
    Servers,  \* the replicas of the server among the processes
    Files,    \* the files of a repository, in archive order
    Targets,  \* the targets among them; the others are metadata
    Hash,     \* the hash of a target in a generation
    Modes,    \* the values of -mode that are considered
    MaxGen    \* bound: repositories made

RootJSON == "root.json"

ASSUME ServersAssumption == Servers \subseteq Procs
ASSUME TufNames == {"tuf-root", "tuf-keys"} \subseteq Names

FileNames == {Files[i] : i \in DOMAIN Files}

\* An archive holds every file once, and the root among them.
ASSUME FilesAssumption ==
    /\ Files \in Seq(FileNames)
    /\ \A i, j \in DOMAIN Files : Files[i] = Files[j] => i = j
    /\ RootJSON \in FileNames

ASSUME TargetsAssumption == Targets \subseteq FileNames \ {RootJSON}

ASSUME ModesAssumption == Modes \subseteq {"init", "init-and-serve", "init-no-overwrite"}
ASSUME MaxGenAssumption == MaxGen \in Nat \ {0}

\* Equal contents have equal hashes: the hash is the first generation with the
\* contents.  trusted_root.json has a time stamp and is new in each, the key of
\* a service stays until the service gets a new one.
ASSUME HashAssumption ==
    \A f \in Targets : \A g \in 2..MaxGen : Hash[f][g] \in 2..g

VARIABLES
    mode,      \* the flag -mode
    noK8s,     \* the flag -no-k8s
    keepKeys,  \* whether the flag -keyssecret names a secret
    volume,    \* whether the target directory outlives the container
    made,      \* how many repositories have been made
    step,      \* per replica: the next step of main
    repo,      \* per replica: the repository it has made
    tmp,       \* per replica: "there" if its temporary directory tuf exists
    target,    \* per replica: the files of its target directory
    next       \* per replica: the archive entry Uncompress handles

flags == <<mode, noK8s, keepKeys, volume>>
tufVars == <<flags, made, step, repo, tmp, target, next>>
vars == <<tufVars, reconcileVars>>

Absent == 0
Truncated == 1
\* Generations are 2, 3, ...

\* Where the file f of generation g is stored, and what is stored there.
Paths == FileNames \X (0..MaxGen)
Path(f, g) == <<f, IF f \in Targets THEN Hash[f][g] ELSE 0>>
Content(f, g) == IF f \in Targets THEN Hash[f][g] ELSE g
RootPath == <<RootJSON, 0>>

Empty == [q \in Paths |-> Absent]

Init ==
    /\ mode \in Modes
    /\ noK8s \in BOOLEAN
    /\ keepKeys \in BOOLEAN
    /\ volume \in (IF mode = "init-and-serve" THEN BOOLEAN ELSE {TRUE})
    /\ made = 1
    /\ step = [p \in Servers |-> "start"]
    /\ repo = [p \in Servers |-> 0]
    /\ tmp = [p \in Servers |-> "none"]
    /\ target = [p \in Servers |-> Empty]
    /\ next = [p \in Servers |-> 1]
    /\ secrets = [n \in Names |-> Missing]
    /\ rev = 1
    /\ ReconcileInit

----------------------------------------------------------------------------
\* main and initTUFRepo.

Go(p, s) == step' = [step EXCEPT ![p] = s]

\* Mutant: an existing root.json always ends the initialization.
SkipIfExists(p) == target[p][RootPath] # Absent

\* repoExists && !overwrite
SkipInit(p) == mode = "init-no-overwrite" /\ target[p][RootPath] # Absent

Start(p) ==
    /\ step[p] = "start"
    /\ Go(p, IF SkipInit(p) THEN "serve" ELSE "create")
    /\ UNCHANGED <<flags, made, repo, tmp, target, next, reconcileVars>>

RootData(g) == [root |-> g, repository |-> g]

\* CreateRepoWithMetadata: the temporary directory must not exist yet.
CreateRepo(p) ==
    /\ step[p] = "create"
    /\ tmp[p] = "none"
    /\ made < MaxGen
    /\ made' = made + 1
    /\ repo' = [repo EXCEPT ![p] = made + 1]
    /\ tmp' = [tmp EXCEPT ![p] = "there"]
    /\ IF noK8s
       THEN Go(p, "copy") /\ UNCHANGED reconcileVars
       ELSE Go(p, "root") /\ Invoke(p, "tuf-root", RootData(made + 1))
    /\ UNCHANGED <<flags, target, next>>

StoreKeys(p) ==
    /\ step[p] = "root"
    /\ keepKeys
    /\ at[p] = "ok"
    /\ Invoke(p, "tuf-keys", [keys |-> repo[p]])
    /\ Go(p, "keys")
    /\ UNCHANGED <<flags, made, repo, tmp, target, next>>

\* Mutant: the error of ReconcileSecret is ignored.
StoredOrNot(p) ==
    /\ step[p] = IF keepKeys THEN "keys" ELSE "root"
    /\ at[p] \in {"ok", "err"}
    /\ Reset(p)
    /\ Go(p, "copy")
    /\ UNCHANGED <<flags, made, repo, tmp, target, next, faults>>

Stored(p) ==
    /\ step[p] = IF keepKeys THEN "keys" ELSE "root"
    /\ at[p] = "ok"
    /\ Reset(p)
    /\ Go(p, "copy")
    /\ UNCHANGED <<flags, made, repo, tmp, target, next, faults>>

\* Uncompress opens the file, which truncates it ...
OpenFile(p) ==
    /\ step[p] = "copy"
    /\ target' = [target EXCEPT ![p][Path(Files[next[p]], repo[p])] = Truncated]
    /\ Go(p, "write")
    /\ UNCHANGED <<flags, made, repo, tmp, next, reconcileVars>>

\* Mutant: the end of the archive is not noticed.
WriteFilePastEnd(p) ==
    /\ step[p] = "write"
    /\ LET f == Files[next[p]]
       IN  target' = [target EXCEPT ![p][Path(f, repo[p])] = Content(f, repo[p])]
    /\ Go(p, "copy")
    /\ next' = [next EXCEPT ![p] = @ + 1]
    /\ UNCHANGED <<flags, made, repo, tmp, reconcileVars>>

\* ... and copies the contents.
WriteFile(p) ==
    /\ step[p] = "write"
    /\ LET f == Files[next[p]]
       IN  target' = [target EXCEPT ![p][Path(f, repo[p])] = Content(f, repo[p])]
    /\ IF next[p] = Len(Files)
       THEN Go(p, "serve") /\ next' = [next EXCEPT ![p] = 1]
       ELSE Go(p, "copy") /\ next' = [next EXCEPT ![p] = @ + 1]
    /\ UNCHANGED <<flags, made, repo, tmp, reconcileVars>>

\* Mutant: the container keeps its temporary directory.
RestartKeepsTmp(p) ==
    /\ Reset(p)
    /\ Go(p, "start")
    /\ repo' = [repo EXCEPT ![p] = 0]
    /\ next' = [next EXCEPT ![p] = 1]
    /\ target' = IF volume THEN target ELSE [target EXCEPT ![p] = Empty]
    /\ UNCHANGED <<flags, made, tmp>>

\* Outside Kubernetes the program is started again on the same file system;
\* -target-dir is then a fixed directory if volume says so, else a new one.
Restart(p) ==
    /\ Reset(p)
    /\ Go(p, "start")
    /\ repo' = [repo EXCEPT ![p] = 0]
    /\ next' = [next EXCEPT ![p] = 1]
    /\ tmp' = IF noK8s THEN tmp ELSE [tmp EXCEPT ![p] = "none"]
    /\ target' = IF volume THEN target ELSE [target EXCEPT ![p] = Empty]
    /\ UNCHANGED <<flags, made>>

\* initTUFRepo returns an error: Mkdir finds the directory, or ReconcileSecret
\* failed.
Fail(p) ==
    /\ \/ step[p] = "create" /\ tmp[p] = "there"
       \/ at[p] \in {"err", "panic"}
    /\ Restart(p)
    /\ UNCHANGED faults

\* The container dies, or reading or writing a file fails.
Die(p) ==
    /\ step[p] # "start"
    /\ at[p] \notin {"err", "panic"}
    /\ Restart(p)
    /\ Fault

Step(p) ==
    \/ Start(p) \/ CreateRepo(p) \/ StoreKeys(p) \/ Stored(p)
    \/ OpenFile(p) \/ WriteFile(p) \/ Fail(p)
    \/ (ReconcileStep(p) /\ UNCHANGED tufVars)

Next == \E p \in Servers : Step(p) \/ Die(p) \/ (RequestFails(p) /\ UNCHANGED tufVars)

\* The kubelet runs the container and starts it again when it has failed.
Spec == Init /\ [][Next]_vars /\ \A p \in Servers : WF_vars(Step(p))

----------------------------------------------------------------------------
\* Properties.

TufTypeOK ==
    /\ made \in 1..MaxGen
    /\ step \in [Servers -> {"start", "create", "root", "keys", "copy", "write", "serve"}]
    /\ repo \in [Servers -> 0..made]
    /\ tmp \in [Servers -> {"none", "there"}]
    /\ target \in [Servers -> [Paths -> 0..made]]
    /\ next \in [Servers -> DOMAIN Files]
    /\ \A p \in Servers : at[p] # "idle" <=> step[p] \in {"root", "keys"}

\* The repository that is served is whole and of one generation: all metadata
\* are of it and all targets they name are there, whatever an earlier
\* initialization that did not finish has left in the directory.
\* (init-no-overwrite trusts root.json alone and promises less.)
ServedIsComplete ==
    \A p \in Servers : step[p] = "serve" /\ mode # "init-no-overwrite" =>
        \E g \in 2..made : \A f \in FileNames : target[p][Path(f, g)] = Content(f, g)

\* What a client finds that has taken the root from the secret: the metadata
\* served are those of that root, and the targets that these name are there,
\* whatever generations came before it; the keys secret holds its keys.  Under
\* init-no-overwrite a file may be missing or cut short, but none is of another
\* generation.
ServedIsPublished ==
    \A p \in Servers : step[p] = "serve" /\ ~ noK8s =>
        \E g \in 2..made :
            /\ secrets["tuf-root"].data = RootData(g)
            /\ keepKeys => secrets["tuf-keys"].data = [keys |-> g]
            /\ \A f \in FileNames :
                  \/ target[p][Path(f, g)] = Content(f, g)
                  \/ /\ mode = "init-no-overwrite"
                     /\ target[p][Path(f, g)] \in {Absent, Truncated}

\* In Kubernetes every replica ends up serving.
EventuallyServing == ~ noK8s => <>[](\A p \in Servers : step[p] = "serve")

=============================================================================
