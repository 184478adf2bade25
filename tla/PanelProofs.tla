----------------------------- MODULE PanelProofs -----------------------------
(***************************************************************************)
(* Proofs about the catalog of Macros and the panel that runs them, for any  *)
(* ids, bodies, texts and bounds: a revision names one definition, and what  *)
(* the daemon runs for a press of Ctrl-R is what the panel showed at it.     *)
(***************************************************************************)
EXTENDS MacroPanel, SequenceTheorems, WellFoundedInduction, TLAPS

-----------------------------------------------------------------------------
(* The inductive invariant *)

\* What stands in c under the id of such a definition is newer, or the same.
Covers(c, definitions) == \A d \in definitions :
    c[d.id] # None /\ d.revision <= c[d.id].revision /\ (d.revision = c[d.id].revision => d = c[d.id])

Standing(c) == {c[id] : id \in Ids} \ {None}

\* The file may be ahead of memory, by a save that was reported as failed.
CatalogInvariant ==
    /\ CatalogTypeOK /\ RevisionNamesOne
    /\ Covers(Loaded, seen) /\ Covers(file, Standing(Loaded))

Form == [text : AllTexts, supplied : BOOLEAN]
Forms == UNION {[DOMAIN b.params -> Form] : b \in Bodies}
Options == [revision : 1..MaxRevision, timeout : AllTexts, fields : Forms]
Draft == [meta : AllMetas \cup {None}, script : AllScripts]
Panel == [open : BOOLEAN, busy : BOOLEAN, entries : SUBSET Ids, selected : Ids \cup {None},
          definition : Definition \cup {None}, drafted : BOOLEAN, editing : BOOLEAN, form : BOOLEAN,
          script : AllScripts \cup {None}, meta : AllMetas \cup {None},
          options : [Ids -> Options \cup {None}], drafts : [Ids \cup {None} -> Draft \cup {None}]]

\* What the panel shows was handed out, and a form is that of its Macro and revision.
FormFits(o, id, given) ==
    \E d \in given : d.id = id /\ d.revision = o.revision /\ DOMAIN o.fields = DOMAIN d.body.params
PanelSound(p, given) ==
    /\ p \in Panel /\ (p.editing => p.script \in AllScripts)
    /\ p.definition # None => p.definition \in given
    /\ \A id \in Ids : p.options[id] # None => FormFits(p.options[id], id, given)

\* A sequence of what is in it.
IsList(s) == s \in Seq({s[i] : i \in DOMAIN s})

CommandSound(c) ==
    /\ c.do \in {"list", "load", "save"}
    /\ c.do = "load" => c.id \in Ids
    /\ c.do = "save" => c.request \in Request
ReplySound(r, given) ==
    /\ r.is \in {"catalog", "definition", "saved", "failed"}
    /\ r.is = "catalog" => r.entries \subseteq Ids
    /\ r.is \in {"definition", "saved"} => r.definition \in given

TaskSound ==
    /\ IsList(contexts) /\ IsList(commands) /\ IsList(replies)
    /\ Len(contexts) = Len(commands) + Len(replies)
    /\ \A i \in DOMAIN commands : CommandSound(commands[i])
    /\ \A i \in DOMAIN replies : ReplySound(replies[i], seen)

AppShaped(a) ==
    a \in [operation : {a.operation}, execution : {a.execution}, requests : {a.requests},
           pending : {a.pending}, acquiring : {a.acquiring}, temporary : {a.temporary}, view : {a.view}]

\* What is asked for a press is what the panel showed at it.
Meant(press, spec, shown, given) ==
    /\ press \in DOMAIN shown /\ spec.args = shown[press].args
    /\ \E d \in given : d.id = spec.id /\ d.revision = spec.revision /\ d.body = shown[press].body

Asked == {i \in DOMAIN inbox : inbox[i].is = "start"}

AsksMeant ==
    /\ app.pending # None => Meant(app.pending.press, app.pending.spec, pressed, seen)
    /\ \A i \in Asked : Meant(inbox[i].operation, inbox[i].spec, pressed, seen)

PressesFit == \A i \in DOMAIN pressed : TypedArgs(pressed[i].body, pressed[i].args)

StartedMeant == \A i \in DOMAIN started :
    /\ started[i].press \in DOMAIN pressed
    /\ started[i].body = pressed[started[i].press].body
    /\ started[i].args = pressed[started[i].press].args

\* A press is waiting for control, on the connection or started, in one place.
Once ==
    /\ \A i, j \in Asked : inbox[i].operation = inbox[j].operation => i = j
    /\ \A i, j \in DOMAIN started : started[i].press = started[j].press => i = j
    /\ \A i \in Asked, j \in DOMAIN started : inbox[i].operation # started[j].press
    /\ app.pending # None =>
          /\ \A i \in Asked : inbox[i].operation # app.pending.press
          /\ \A j \in DOMAIN started : started[j].press # app.pending.press

LineSound ==
    /\ IsList(inbox) /\ Len(inbox) <= Link /\ AppShaped(app) /\ IsList(pressed) /\ IsList(started)
    /\ AsksMeant /\ PressesFit /\ StartedMeant /\ Once

\* What the daemon may send.
Kinds == {"granted", "refused", "error", "result", "event", "control", "session"}
OutboxSound == IsList(outbox) /\ \A i \in DOMAIN outbox : outbox[i].is \in Kinds

Invariant == CatalogInvariant /\ PanelSound(panel, seen) /\ TaskSound /\ LineSound /\ OutboxSound

-----------------------------------------------------------------------------
(* Lists *)

LEMMA SeqIsList ==
    ASSUME NEW S, NEW s \in Seq(S)
    PROVE  IsList(s)
<1>1. PICK n \in Nat : s \in [1..n -> S]
    BY SeqDef
<1>2. DOMAIN s = 1..n
    BY <1>1
<1>3. s \in [1..n -> {s[i] : i \in DOMAIN s}]
    BY <1>1, <1>2
<1> QED
    BY <1>3, SeqDef DEF IsList

LEMMA TailList ==
    ASSUME NEW s, IsList(s), s # <<>>
    PROVE  /\ IsList(Tail(s)) /\ Len(Tail(s)) = Len(s) - 1 /\ Head(s) = s[1] /\ 1 \in DOMAIN s
           /\ \A i \in DOMAIN Tail(s) : i + 1 \in DOMAIN s /\ Tail(s)[i] = s[i + 1]
<1> DEFINE S == {s[i] : i \in DOMAIN s}
<1>1. s \in Seq(S)
    BY DEF IsList
<1> HIDE DEF S
<1>2. /\ Tail(s) \in Seq(S) /\ Len(Tail(s)) = Len(s) - 1 /\ Head(s) = s[1] /\ 1 \in DOMAIN s
      /\ \A i \in DOMAIN Tail(s) : i + 1 \in DOMAIN s /\ Tail(s)[i] = s[i + 1]
    BY <1>1
<1>3. IsList(Tail(s))
    BY <1>2, SeqIsList
<1> QED
    BY <1>2, <1>3

LEMMA ConcatList ==
    ASSUME NEW s, NEW t, IsList(s), IsList(t)
    PROVE  /\ IsList(s \o t) /\ Len(s \o t) = Len(s) + Len(t)
           /\ \A i \in DOMAIN (s \o t) :
                 \/ i \in DOMAIN s /\ (s \o t)[i] = s[i]
                 \/ i \notin DOMAIN s /\ i - Len(s) \in DOMAIN t /\ (s \o t)[i] = t[i - Len(s)]
<1> DEFINE S == {s[i] : i \in DOMAIN s} \cup {t[i] : i \in DOMAIN t}
<1>1. s \in Seq(S) /\ t \in Seq(S)
    <2>1. s \in Seq({s[i] : i \in DOMAIN s}) /\ t \in Seq({t[i] : i \in DOMAIN t})
        BY DEF IsList
    <2> QED
        BY <2>1
<1> HIDE DEF S
<1>2. s \o t \in Seq(S) /\ Len(s \o t) = Len(s) + Len(t)
    BY <1>1
<1>3. ASSUME NEW i \in DOMAIN (s \o t)
      PROVE  \/ i \in DOMAIN s /\ (s \o t)[i] = s[i]
             \/ i \notin DOMAIN s /\ i - Len(s) \in DOMAIN t /\ (s \o t)[i] = t[i - Len(s)]
    BY <1>1
<1>4. IsList(s \o t)
    BY <1>2, SeqIsList
<1> QED
    BY <1>2, <1>3, <1>4

LEMMA AppendList ==
    ASSUME NEW s, NEW x, IsList(s)
    PROVE  /\ IsList(Append(s, x)) /\ Len(Append(s, x)) = Len(s) + 1
           /\ DOMAIN Append(s, x) = DOMAIN s \cup {Len(s) + 1} /\ Len(s) + 1 \notin DOMAIN s
           /\ Append(s, x)[Len(s) + 1] = x
           /\ \A i \in DOMAIN s : Append(s, x)[i] = s[i]
           /\ DOMAIN s = 1..Len(s) /\ Len(s) \in Nat
<1> DEFINE S == {s[i] : i \in DOMAIN s} \cup {x}
<1>1. s \in Seq(S) /\ x \in S
    <2>1. s \in Seq({s[i] : i \in DOMAIN s})
        BY DEF IsList
    <2> QED
        BY <2>1
<1> HIDE DEF S
<1>2. /\ Append(s, x) \in Seq(S) /\ Len(Append(s, x)) = Len(s) + 1
      /\ DOMAIN Append(s, x) = DOMAIN s \cup {Len(s) + 1} /\ Len(s) + 1 \notin DOMAIN s
      /\ Append(s, x)[Len(s) + 1] = x
      /\ \A i \in DOMAIN s : Append(s, x)[i] = s[i]
      /\ DOMAIN s = 1..Len(s) /\ Len(s) \in Nat
    BY <1>1
<1>3. IsList(Append(s, x))
    BY <1>2, SeqIsList
<1> QED
    BY <1>2, <1>3

LEMMA ShortList ==
    /\ IsList(<<>>) /\ Len(<<>>) = 0 /\ DOMAIN <<>> = {}
    /\ \A x : IsList(<<x>>) /\ Len(<<x>>) = 1 /\ DOMAIN <<x>> = {1} /\ <<x>>[1] = x
<1>1. IsList(<<>>) /\ Len(<<>>) = 0 /\ DOMAIN <<>> = {}
    BY DEF IsList
<1>2. ASSUME NEW x PROVE IsList(<<x>>) /\ Len(<<x>>) = 1 /\ DOMAIN <<x>> = {1} /\ <<x>>[1] = x
    BY DEF IsList
<1> QED
    BY <1>1, <1>2

-----------------------------------------------------------------------------
(* The catalog *)

LEMMA CatalogEntry ==
    ASSUME NEW c \in Catalogs
    PROVE  /\ c \in [Ids -> Definition \cup {None}]
           /\ \A d \in Standing(c) : d \in Definition /\ c[d.id] = d
           /\ \A d \in Definition : d.id \in Ids /\ d.revision \in Nat \ {0}
           /\ Covers(c, Standing(c))
<1>1. /\ c \in [Ids -> Definition \cup {None}]
      /\ \A id \in Ids : c[id] # None => c[id].id = id
    BY DEF Catalogs
<1>2. \A d \in Standing(c) : d # None /\ d \in Definition /\ c[d.id] = d
    BY <1>1 DEF Standing
<1>3. \A d \in Definition : d.id \in Ids /\ d.revision \in Nat \ {0}
    BY DEF Definition
<1>4. Covers(c, Standing(c))
    BY <1>2, <1>3 DEF Covers
<1> QED
    BY <1>1, <1>2, <1>3, <1>4

\* Covering is transitive.
LEMMA CoversThrough ==
    ASSUME NEW c \in Catalogs, NEW b \in Catalogs,
           NEW S, S \subseteq Definition, Covers(b, S), Covers(c, Standing(b)), PanelAssumption
    PROVE  Covers(c, S)
<1> SUFFICES ASSUME NEW d \in S
             PROVE  c[d.id] # None /\ d.revision <= c[d.id].revision
                    /\ (d.revision = c[d.id].revision => d = c[d.id])
    BY DEF Covers
<1>1. d.id \in Ids /\ d.revision \in Nat
    BY CatalogEntry
<1> DEFINE e == b[d.id]
<1>2. e # None /\ d.revision <= e.revision /\ (d.revision = e.revision => d = e)
    BY DEF Covers
<1>3. e \in Standing(b)
    BY <1>1, <1>2 DEF Standing
<1>4. e \in Definition /\ e.revision \in Nat /\ e.id = d.id
    BY <1>1, <1>2, <1>3, CatalogEntry DEF Catalogs
<1> HIDE DEF e
<1>5. c[d.id] # None /\ e.revision <= c[d.id].revision /\ (e.revision = c[d.id].revision => e = c[d.id])
    BY <1>3, <1>4 DEF Covers
<1>6. c[d.id].revision \in Nat
    BY <1>1, <1>5, CatalogEntry
<1> QED
    BY <1>1, <1>2, <1>4, <1>5, <1>6

\* What a save makes of the catalog covers what was covered, and the new definition.
LEMMA SavedCovers ==
    ASSUME PanelAssumption, NEW c \in Catalogs, NEW request \in Request,
           NextRevision(c, request) <= MaxRevision,
           NEW S, S \subseteq Definition, Covers(c, S)
    PROVE  LET new == Saved(c, request)
               after == [c EXCEPT ![request.id] = new]
           IN /\ new \in Definition /\ after \in Catalogs
              /\ after[new.id] = new /\ Covers(after, S \cup {new})
<1> DEFINE new == Saved(c, request)
           after == [c EXCEPT ![request.id] = new]
           old == c[request.id]
<1>1. request.id \in Ids /\ request.body \in Bodies
    BY DEF Request
<1>2. /\ c \in [Ids -> Definition \cup {None}]
      /\ \A d \in Definition : d.id \in Ids /\ d.revision \in Nat \ {0}
    BY CatalogEntry
<1>3. new = [id |-> request.id, revision |-> new.revision, body |-> request.body]
    BY DEF Saved
<1>4. /\ new.revision \in Nat \ {0} /\ new.revision <= MaxRevision
      /\ old # None => new.revision = old.revision + 1
    BY <1>1, <1>2 DEF Saved, NextRevision
<1> HIDE DEF new
<1>5. new \in Definition /\ new.id = request.id /\ new # None
    <2>1. new.revision \in 1..MaxRevision
        BY <1>4
    <2> QED
        BY <1>1, <1>3, <2>1 DEF Definition, PanelAssumption
<1>6. after \in Catalogs /\ after[request.id] = new
    BY <1>1, <1>2, <1>5 DEF Catalogs
<1>7. ASSUME NEW d \in S
      PROVE  after[d.id] # None /\ d.revision <= after[d.id].revision
             /\ (d.revision = after[d.id].revision => d = after[d.id])
    <2>1. d.id \in Ids /\ d.revision \in Nat
        BY <1>2
    <2>2. c[d.id] # None /\ d.revision <= c[d.id].revision
          /\ (d.revision = c[d.id].revision => d = c[d.id])
        BY DEF Covers
    <2>3. CASE d.id = request.id
        <3>1. old \in Definition /\ old.revision \in Nat /\ d.revision <= old.revision
            BY <2>2, <2>3, <1>1, <1>2
        <3>2. d.revision < new.revision
            BY <3>1, <2>1, <2>2, <2>3, <1>4
        <3> QED
            BY <3>2, <2>1, <2>3, <1>4, <1>5, <1>6
    <2>4. CASE d.id # request.id
        BY <2>1, <2>2, <2>4, <1>2
    <2> QED
        BY <2>3, <2>4
<1>8. Covers(after, S \cup {new})
    BY <1>4, <1>5, <1>6, <1>7 DEF Covers
<1> QED
    BY <1>5, <1>6, <1>8 DEF new

\* A definition given beside others that are covered with it names its revision.
LEMMA NameKept ==
    ASSUME NEW c, NEW x, NEW S, Covers(c, S), c[x.id] = x,
           \A d, e \in S : d.id = e.id /\ d.revision = e.revision => d.body = e.body
    PROVE  \A d, e \in S \cup {x} : d.id = e.id /\ d.revision = e.revision => d.body = e.body
<1>1. \A d \in S : d.id = x.id /\ d.revision = x.revision => d = x
    BY DEF Covers
<1> QED
    BY <1>1

LEMMA CatalogInvariantInit ==
    ASSUME PanelAssumption, CatalogInit
    PROVE  CatalogInvariant
<1>1. Loaded = file /\ file \in Catalogs /\ memory = None /\ seen = {}
    BY DEF CatalogInit, Loaded
<1>2. Covers(file, Standing(file))
    BY <1>1, CatalogEntry
<1> QED
    BY <1>1, <1>2 DEF CatalogInvariant, CatalogTypeOK, RevisionNamesOne, Covers

LEMMA CatalogInvariantStep ==
    ASSUME PanelAssumption, CatalogInvariant, [CatalogNext]_catalog
    PROVE  CatalogInvariant'
<1> DEFINE L == Loaded
<1>1. /\ CatalogTypeOK /\ RevisionNamesOne
      /\ Covers(L, seen) /\ Covers(file, Standing(L))
    BY DEF CatalogInvariant
<1>2. /\ L \in Catalogs /\ L # None /\ file \in Catalogs
      /\ seen \subseteq Definition
    BY <1>1 DEF CatalogTypeOK, Loaded, PanelAssumption
<1>3. \A c : memory' = c /\ c # None => L' = c
    BY DEF Loaded
<1>4. memory' = None => L' = file'
    BY DEF Loaded
<1> HIDE DEF L
<1>5. ASSUME memory' = L \/ memory' = None, L' \in Catalogs, file' \in Catalogs,
             seen' \subseteq Definition, RevisionNamesOne',
             Covers(L', seen'), Covers(file', Standing(L'))
      PROVE  CatalogInvariant'
    BY <1>5, <1>2 DEF CatalogInvariant, CatalogTypeOK, L, Covers, Standing
<1>6. CASE Look
    <2>1. memory' = L /\ L' = L /\ UNCHANGED <<file, seen>>
        BY <1>2, <1>3, <1>6 DEF Look, L
    <2>2. RevisionNamesOne'
        BY <1>1, <2>1 DEF RevisionNamesOne
    <2> QED
        BY <2>1, <2>2, <1>1, <1>2, <1>5
<1>7. ASSUME NEW id \in Ids, Get(id) PROVE CatalogInvariant'
    <2>1. memory' = L /\ L' = L /\ UNCHANGED file /\ seen' = seen \cup ({L[id]} \ {None})
        BY <1>2, <1>3, <1>7 DEF Get, L
    <2>2. CASE L[id] = None
        <3>1. seen' = seen
            BY <2>1, <2>2
        <3>2. RevisionNamesOne'
            BY <1>1, <3>1 DEF RevisionNamesOne
        <3> QED
            BY <2>1, <3>1, <3>2, <1>1, <1>2, <1>5
    <2>3. CASE L[id] # None
        <3>1. L[id] \in Standing(L) /\ seen' = seen \cup {L[id]}
            BY <2>1, <2>3 DEF Standing
        <3>2. L[id] \in Definition /\ L[L[id].id] = L[id] /\ Covers(L, Standing(L))
            BY <3>1, <1>2, CatalogEntry
        <3>3. Covers(L, seen')
            BY <3>1, <3>2, <1>1 DEF Covers
        <3>4. RevisionNamesOne'
            BY <3>1, <3>2, <1>1, NameKept DEF RevisionNamesOne
        <3>5. seen' \subseteq Definition
            BY <3>1, <3>2, <1>2
        <3>6. Covers(L', seen')
            BY <3>3, <2>1
        <3> QED
            BY <2>1, <3>4, <3>5, <3>6, <1>1, <1>2, <1>5
    <2> QED
        BY <2>2, <2>3
<1>8. ASSUME NEW request \in Request, Save(request) PROVE CatalogInvariant'
    <2> DEFINE new == Saved(L, request)
               after == [L EXCEPT ![request.id] = new]
    <2>1. file' = after /\ memory' = after /\ seen' = seen \cup {new}
        BY <1>8 DEF Save, L
    <2>2. NextRevision(L, request) <= MaxRevision
        BY <1>8 DEF Save, L
    <2>3. /\ new \in Definition /\ after \in Catalogs
          /\ after[new.id] = new /\ Covers(after, seen \cup {new})
        BY <2>2, <1>1, <1>2, SavedCovers
    <2> HIDE DEF new, after
    <2>4. L' = after
        BY <2>1, <2>3, <1>3 DEF PanelAssumption
    <2>5. Covers(after, seen)
        BY <2>3 DEF Covers
    <2>6. RevisionNamesOne'
        BY <2>1, <2>3, <2>5, <1>1, NameKept DEF RevisionNamesOne
    <2>7. Covers(after, Standing(after))
        BY <2>3, CatalogEntry
    <2>8. Covers(L', seen') /\ Covers(file', Standing(L'))
        BY <2>1, <2>3, <2>4, <2>7
    <2>9. memory' \in Catalogs /\ file' \in Catalogs /\ seen' \subseteq Definition
        BY <2>1, <2>3, <1>2
    <2> QED
        BY <2>6, <2>8, <2>9 DEF CatalogInvariant, CatalogTypeOK, L, Covers, Standing
<1>9. ASSUME NEW request \in Request, SaveFails(request) PROVE CatalogInvariant'
    <2> DEFINE new == Saved(L, request)
               after == [L EXCEPT ![request.id] = new]
    <2>1. file' \in {file, after} /\ memory' = L /\ UNCHANGED seen
        BY <1>9 DEF SaveFails, L
    <2>2. NextRevision(L, request) <= MaxRevision
        BY <1>9 DEF SaveFails, L
    <2>3. Standing(L) \subseteq Definition /\ Covers(L, Standing(L))
        BY <1>2, CatalogEntry
    <2>4. after \in Catalogs /\ Covers(after, Standing(L) \cup {new})
        BY <2>2, <2>3, <1>2, SavedCovers
    <2> HIDE DEF new, after
    <2>5. Covers(after, Standing(L)) /\ L' = L
        BY <2>1, <2>4, <1>2, <1>3 DEF Covers
    <2>6. RevisionNamesOne' /\ seen' \subseteq Definition
        BY <1>1, <1>2, <2>1 DEF RevisionNamesOne
    <2>7. file' \in Catalogs /\ Covers(file', Standing(L'))
        BY <2>1, <2>4, <2>5, <1>1, <1>2
    <2> QED
        BY <2>1, <2>5, <2>6, <2>7, <1>1, <1>2, <1>5
<1>10. CASE Restart
    <2>1. memory' = None /\ L' = file /\ UNCHANGED <<file, seen>>
        BY <1>4, <1>10 DEF Restart
    <2>2. Covers(file, seen) /\ Covers(file, Standing(file))
        BY <1>1, <1>2, CoversThrough, CatalogEntry
    <2>3. RevisionNamesOne'
        BY <1>1, <2>1 DEF RevisionNamesOne
    <2> QED
        BY <2>1, <2>2, <2>3, <1>2, <1>5
<1>11. CASE UNCHANGED catalog
    <2>1. UNCHANGED <<memory, file, seen>>
        BY <1>11 DEF catalog
    <2> QED
        BY <2>1 DEF CatalogInvariant, CatalogTypeOK, RevisionNamesOne, Loaded,
            Covers, Standing
<1> QED
    BY <1>6, <1>7, <1>8, <1>9, <1>10, <1>11 DEF CatalogNext, SaveRefused

-----------------------------------------------------------------------------
(* The panel *)

LEMMA PanelSoundMore ==
    ASSUME NEW p, NEW S, NEW T, S \subseteq T, PanelSound(p, S)
    PROVE  PanelSound(p, T)
<1> QED
    BY DEF PanelSound, FormFits

LEMMA LineUnchanged ==
    ASSUME LineSound, UNCHANGED <<app, inbox, pressed, started>>, seen \subseteq seen'
    PROVE  LineSound'
<1>1. \A press, spec : Meant(press, spec, pressed, seen) => Meant(press, spec, pressed', seen')
    BY DEF Meant
<1>2. Asked' = Asked
    BY DEF Asked
<1>3. AsksMeant'
    BY <1>1, <1>2 DEF LineSound, AsksMeant, Asked
<1>4. PressesFit' /\ StartedMeant' /\ Once'
    BY <1>2 DEF LineSound, PressesFit, StartedMeant, Once
<1> QED
    BY <1>3, <1>4 DEF LineSound, IsList, AppShaped

LEMMA CommandsSound ==
    /\ \A p : CommandSound(List(p))
    /\ \A id \in Ids : CommandSound(Load(id))
    /\ \A request \in Request : CommandSound([do |-> "save", request |-> request])
<1> QED
    BY DEF CommandSound, List, Load

LEMMA BusySound ==
    ASSUME NEW p, NEW S, PanelSound(p, S), NEW b \in BOOLEAN
    PROVE  PanelSound([p EXCEPT !.busy = b], S)
<1> QED
    BY DEF PanelSound, Panel

\* Asking the task for something, or for nothing.
LEMMA PerformSound ==
    ASSUME NEW p, NEW id, NEW command, NEW waited, PerformAs(id, p, command, waited),
           NEW S, PanelSound(p, S), command = None \/ CommandSound(command), IsList(waited),
           IsList(commands), \A i \in DOMAIN commands : CommandSound(commands[i])
    PROVE  /\ PanelSound(panel', S) /\ IsList(contexts') /\ IsList(commands')
           /\ Len(contexts') - Len(commands') = Len(waited) - Len(commands)
           /\ \A i \in DOMAIN commands' : CommandSound(commands'[i])
<1> DEFINE sent == command # None /\ Len(commands) < Capacity
<1>1. PanelSound(panel', S)
    <2>1. panel' = p \/ panel' = [p EXCEPT !.busy = sent]
        BY DEF PerformAs
    <2> QED
        BY <2>1, BusySound
<1>2. Len(waited) \in Nat /\ Len(commands) \in Nat
    BY AppendList
<1>3. CASE sent
    <2>1. commands' = Append(commands, command) /\ contexts' = Append(waited, id)
        BY <1>3 DEF PerformAs
    <2>2. IsList(contexts') /\ Len(contexts') = Len(waited) + 1
        BY <2>1, AppendList
    <2>3. IsList(commands') /\ Len(commands') = Len(commands) + 1
        BY <2>1, AppendList
    <2>4. \A i \in DOMAIN commands' : CommandSound(commands'[i])
        BY <2>1, <1>3, AppendList
    <2> QED
        BY <2>2, <2>3, <2>4, <1>1, <1>2
<1>4. CASE ~sent
    <2>1. commands' = commands /\ contexts' = waited
        BY <1>4 DEF PerformAs
    <2> QED
        BY <2>1, <1>1, <1>2
<1> QED
    BY <1>3, <1>4

\* A key that concerns the panel alone.
LEMMA KeySound ==
    ASSUME PanelSound(panel, seen), TaskSound, LineSound,
           NEW p, PanelSound(p, seen), NEW id, NEW command, PerformAs(id, p, command, contexts),
           command = None \/ CommandSound(command),
           UNCHANGED <<seen, replies, app, inbox, pressed, started>>
    PROVE  PanelSound(panel, seen)' /\ TaskSound' /\ LineSound'
<1>1. /\ PanelSound(panel', seen) /\ IsList(contexts') /\ IsList(commands')
      /\ Len(contexts') - Len(commands') = Len(contexts) - Len(commands)
      /\ \A i \in DOMAIN commands' : CommandSound(commands'[i])
    BY PerformSound DEF TaskSound
<1>2. Len(contexts') = Len(commands') + Len(replies')
    <2>1. /\ Len(contexts) \in Nat /\ Len(commands) \in Nat /\ Len(replies) \in Nat
          /\ Len(contexts') \in Nat /\ Len(commands') \in Nat
        BY <1>1, AppendList DEF TaskSound
    <2>2. replies' = replies /\ Len(contexts) = Len(commands) + Len(replies)
        BY DEF TaskSound
    <2> QED
        BY <1>1, <2>1, <2>2
<1>3. IsList(replies') /\ \A i \in DOMAIN replies' : ReplySound(replies'[i], seen')
    BY DEF TaskSound, IsList
<1>4. TaskSound'
    BY <1>1, <1>2, <1>3 DEF TaskSound, IsList
<1>5. PanelSound(panel', seen')
    BY <1>1
<1> QED
    BY <1>4, <1>5, LineUnchanged

\* The form of the Macro that is shown.
LEMMA OptionsShown ==
    ASSUME NEW p, NEW S, PanelSound(p, S), S \subseteq Definition, p.definition # None,
           \A d, e \in S : d.id = e.id /\ d.revision = e.revision => d.body = e.body
    PROVE  /\ p.definition \in Definition /\ p.definition \in S
           /\ SelectedOptions(p) \in Options /\ SelectedOptions(p).revision = p.definition.revision
           /\ DOMAIN SelectedOptions(p).fields = DOMAIN p.definition.body.params
<1> DEFINE d == p.definition
<1>1. d \in S /\ d \in Definition
    BY DEF PanelSound
<1>2. d.id \in Ids /\ d.revision \in 1..MaxRevision /\ d.body \in Bodies
    BY <1>1 DEF Definition
<1> HIDE DEF d
<1>3. /\ NewOptions(d) \in Options /\ NewOptions(d).revision = d.revision
      /\ DOMAIN NewOptions(d).fields = DOMAIN d.body.params
    <2>1. \A i \in DOMAIN d.body.params : Field(d.body.params[i]) \in Form
        <3> TAKE i \in DOMAIN d.body.params
        <3>1. Field(d.body.params[i]).text \in AllTexts
            BY <1>2 DEF AllTexts
        <3>2. /\ Field(d.body.params[i]) =
                    [text |-> Field(d.body.params[i]).text, supplied |-> Field(d.body.params[i]).supplied]
              /\ Field(d.body.params[i]).supplied \in BOOLEAN
            BY DEF Field
        <3> QED
            BY <3>1, <3>2 DEF Form
    <2> DEFINE f == [i \in DOMAIN d.body.params |-> Field(d.body.params[i])]
    <2>2. f \in [DOMAIN d.body.params -> Form] /\ DOMAIN f = DOMAIN d.body.params
        BY <2>1
    <2>3. NewOptions(d) = [revision |-> d.revision, timeout |-> Thirty, fields |-> f]
        BY DEF NewOptions
    <2> HIDE DEF f
    <2>4. f \in Forms
        BY <2>2, <1>2 DEF Forms
    <2>5. Thirty \in AllTexts
        BY DEF AllTexts
    <2> QED
        BY <2>2, <2>3, <2>4, <2>5, <1>2 DEF Options
<1>4. CASE SelectedOptions(p) = NewOptions(d)
    BY <1>1, <1>3, <1>4 DEF d
<1>5. CASE p.options[d.id] # None /\ p.options[d.id].revision = d.revision /\ SelectedOptions(p) = p.options[d.id]
    <2>1. p.options[d.id] \in Options
        BY <1>2, <1>5 DEF PanelSound, Panel
    <2>2. PICK e \in S : /\ e.id = d.id /\ e.revision = p.options[d.id].revision
                         /\ DOMAIN p.options[d.id].fields = DOMAIN e.body.params
        BY <1>2, <1>5 DEF PanelSound, FormFits
    <2>3. e.body = d.body
        BY <2>2, <1>1, <1>5
    <2> QED
        BY <2>1, <2>2, <2>3, <1>1, <1>5 DEF d
<1> QED
    BY <1>4, <1>5 DEF SelectedOptions, d

LEMMA WithOptionsSound ==
    ASSUME NEW p, NEW S, PanelSound(p, S), S \subseteq Definition, p.definition # None,
           NEW o \in Options, o.revision = p.definition.revision,
           DOMAIN o.fields = DOMAIN p.definition.body.params
    PROVE  PanelSound(WithOptions(p, o), S)
<1> DEFINE q == WithOptions(p, o)
           d == p.definition
<1>1. d \in S /\ d.id \in Ids
    BY DEF PanelSound, Definition
<1>2. q \in Panel
    BY <1>1 DEF PanelSound, Panel, WithOptions
<1>3. q.editing = p.editing /\ q.script = p.script /\ q.definition = d
    BY DEF PanelSound, Panel, WithOptions
<1>4. ASSUME NEW id \in Ids, q.options[id] # None PROVE FormFits(q.options[id], id, S)
    <2>1. CASE id = d.id
        <3>1. q.options[id] = o
            BY <2>1 DEF PanelSound, Panel, WithOptions
        <3> QED
            BY <3>1, <2>1, <1>1 DEF FormFits
    <2>2. CASE id # d.id
        <3>1. q.options[id] = p.options[id]
            BY <2>2 DEF PanelSound, Panel, WithOptions
        <3> QED
            BY <3>1, <1>4 DEF PanelSound
    <2> QED
        BY <2>1, <2>2
<1> HIDE DEF q
<1> QED
    BY <1>2, <1>3, <1>4 DEF PanelSound, q

\* What the editor holds is kept for its Macro.
LEMMA EditorSound ==
    ASSUME PanelAssumption, NEW p, NEW S, PanelSound(p, S), S \subseteq Definition,
           NEW definition, definition = None \/ definition \in S, NEW id \in Ids, NEW body \in Bodies
    PROVE  PanelSound(EditorOf(p, definition, id, body), S)
<1> DEFINE meta == [id |-> id, shared |-> body.shared, params |-> body.params]
           q == [p EXCEPT !.definition = definition, !.editing = TRUE, !.form = FALSE,
                          !.script = body.script, !.meta = meta]
           draft == p.drafts[DraftKey(q)]
<1>1. meta \in AllMetas /\ body.script \in AllScripts /\ definition \in Definition \cup {None}
    BY DEF AllMetas, AllScripts
<1> HIDE DEF meta
<1>2. PanelSound(q, S)
    BY <1>1 DEF PanelSound, Panel
<1>3. q.definition = definition
    BY DEF PanelSound, Panel
<1>4. DraftKey(q) \in Ids \cup {None}
    BY <1>1, <1>3 DEF DraftKey, Definition
<1>5. draft \in Draft \cup {None}
    BY <1>4 DEF PanelSound, Panel
<1> HIDE DEF q
<1>6. CASE draft = None
    BY <1>2, <1>6 DEF EditorOf, meta, q
<1>7. CASE draft # None
    <2>1. EditorOf(p, definition, id, body) = [q EXCEPT !.meta = draft.meta, !.script = draft.script]
        BY <1>7 DEF EditorOf, meta, q
    <2>2. draft.meta \in AllMetas \cup {None} /\ draft.script \in AllScripts
        BY <1>5, <1>7 DEF Draft
    <2> HIDE DEF draft
    <2>3. PanelSound([q EXCEPT !.meta = draft.meta, !.script = draft.script], S)
        BY <2>2, <1>2 DEF PanelSound, Panel
    <2> QED
        BY <2>1, <2>3
<1> QED
    BY <1>6, <1>7

-----------------------------------------------------------------------------
(* The keys *)

\* The keys that concern the panel alone, Open to FillField.
PanelKeys ==
    \/ Open \/ Close \/ Move \/ Refresh \/ OpenEditor \/ Edit \/ LeaveEditor \/ SaveDraft
    \/ OpenForm \/ LeaveForm \/ FillTimeout \/ FillField

LEMMA GivenDefinitions ==
    ASSUME CatalogInvariant
    PROVE  /\ seen \subseteq Definition
           /\ \A d, e \in seen : d.id = e.id /\ d.revision = e.revision => d.body = e.body
<1> QED
    BY DEF CatalogInvariant, CatalogTypeOK, RevisionNamesOne

\* A request to save is one of what the editors hold.
LEMMA SaveRequestSound ==
    ASSUME PanelAssumption, PanelSound(panel, seen), seen \subseteq Definition,
           panel.editing, panel.meta # None
    PROVE  SaveRequest \in Request
<1>1. panel.meta \in AllMetas /\ panel.script \in AllScripts
    BY DEF PanelSound, Panel
<1>2. panel.definition # None => panel.definition.revision \in 1..MaxRevision
    BY DEF PanelSound, Definition
<1>3. [script |-> panel.script, shared |-> panel.meta.shared, params |-> panel.meta.params] \in Bodies
      /\ panel.meta.id \in Ids
    BY <1>1 DEF PanelAssumption
<1> QED
    BY <1>2, <1>3 DEF SaveRequest, Request

LEMMA PanelKeysStep ==
    ASSUME PanelAssumption, Invariant, PanelKeys
    PROVE  PanelSound(panel, seen)' /\ TaskSound' /\ LineSound' /\ UNCHANGED catalog
<1>1. /\ PanelSound(panel, seen) /\ TaskSound /\ LineSound /\ seen \subseteq Definition
      /\ \A d, e \in seen : d.id = e.id /\ d.revision = e.revision => d.body = e.body
    BY GivenDefinitions DEF Invariant
<1>2. UNCHANGED <<memory, file, seen, replies, app, inbox, pressed, started>>
    BY DEF PanelKeys, Open, Close, Move, Refresh, OpenEditor, Edit, LeaveEditor, SaveDraft, OpenForm,
        LeaveForm, FillTimeout, FillField, Keyed, catalog, network, daemon
<1>3. UNCHANGED catalog
    BY <1>2 DEF catalog
<1>4. ASSUME NEW p, PanelSound(p, seen), NEW id, NEW command, PerformAs(id, p, command, contexts),
             command = None \/ CommandSound(command)
      PROVE  PanelSound(panel, seen)' /\ TaskSound' /\ LineSound'
    BY <1>1, <1>2, <1>4, KeySound
<1>5. ASSUME NEW p, PanelSound(p, seen), Becomes(p)
      PROVE  PanelSound(panel, seen)' /\ TaskSound' /\ LineSound'
    BY <1>4, <1>5 DEF Becomes, Perform
<1> DEFINE Kept == PanelSound(panel, seen)' /\ TaskSound' /\ LineSound'
<1> HIDE DEF Kept
<1>6. ASSUME Open PROVE Kept
    <2>1. PanelSound([panel EXCEPT !.open = TRUE], seen)
        BY <1>1 DEF PanelSound, Panel
    <2>2. PerformAs(opens + 1, [panel EXCEPT !.open = TRUE], List(panel), contexts)
        BY <1>6 DEF Open
    <2> QED
        BY <2>1, <2>2, <1>4, CommandsSound DEF Kept
<1>7. ASSUME Close PROVE Kept
    <2>1. PanelSound([panel EXCEPT !.open = FALSE], seen)
        BY <1>1 DEF PanelSound, Panel
    <2> QED
        BY <2>1, <1>5, <1>7 DEF Close, Kept
<1>8. ASSUME Move PROVE Kept
    <2>1. PICK id \in Beside(panel) : Perform([panel EXCEPT !.selected = id], Load(id), contexts)
        BY <1>8 DEF Move
    <2>2. id \in Ids
        BY <2>1, <1>1 DEF Beside, PanelSound, Panel
    <2>3. PanelSound([panel EXCEPT !.selected = id], seen)
        BY <2>2, <1>1 DEF PanelSound, Panel
    <2> QED
        BY <2>1, <2>2, <2>3, <1>4, CommandsSound DEF Perform, Kept
<1>9. ASSUME Refresh PROVE Kept
    <2>1. PICK drafted \in BOOLEAN :
            Perform([panel EXCEPT !.drafted = drafted], List([panel EXCEPT !.drafted = drafted]), contexts)
        BY <1>9 DEF Refresh
    <2>2. PanelSound([panel EXCEPT !.drafted = drafted], seen)
        BY <1>1 DEF PanelSound, Panel
    <2> QED
        BY <2>1, <2>2, <1>4, CommandsSound DEF Perform, Kept
<1>10. ASSUME OpenEditor PROVE Kept
    <2>1. CASE Becomes(EditorOf(panel, None, NewId, NewBody))
        <3>1. PanelSound(EditorOf(panel, None, NewId, NewBody), seen)
            BY <1>1, EditorSound DEF PanelAssumption
        <3> QED
            BY <2>1, <3>1, <1>5 DEF Kept
    <2>2. CASE /\ panel.definition # None
               /\ Becomes(EditorOf(panel, panel.definition, panel.definition.id, panel.definition.body))
        <3>1. panel.definition \in seen /\ panel.definition.id \in Ids /\ panel.definition.body \in Bodies
            BY <2>2, <1>1 DEF PanelSound, Definition
        <3>2. PanelSound(EditorOf(panel, panel.definition, panel.definition.id, panel.definition.body), seen)
            BY <3>1, <1>1, EditorSound
        <3> QED
            BY <2>2, <3>2, <1>5 DEF Kept
    <2> QED
        BY <2>1, <2>2, <1>10 DEF OpenEditor
<1>11. ASSUME Edit PROVE Kept
    <2>1. ASSUME NEW script \in Scripts, Becomes([panel EXCEPT !.script = script]) PROVE Kept
        <3>1. PanelSound([panel EXCEPT !.script = script], seen)
            BY <1>1 DEF PanelSound, Panel, AllScripts
        <3> QED
            BY <2>1, <3>1, <1>5 DEF Kept
    <2>2. ASSUME NEW meta \in Metas, Becomes([panel EXCEPT !.meta = meta]) PROVE Kept
        <3>1. meta \in AllMetas \cup {None}
            BY DEF AllMetas
        <3>2. PanelSound([panel EXCEPT !.meta = meta], seen)
            BY <3>1, <1>1 DEF PanelSound, Panel
        <3> QED
            BY <2>2, <3>2, <1>5 DEF Kept
    <2> QED
        BY <2>1, <2>2, <1>11 DEF Edit
<1>12. ASSUME LeaveEditor PROVE Kept
    <2> DEFINE draft == [meta |-> panel.meta, script |-> panel.script]
               p == [panel EXCEPT !.editing = FALSE, !.drafts[DraftKey(panel)] = draft]
    <2>1. draft \in Draft
        BY <1>1, <1>12 DEF LeaveEditor, InEditor, PanelSound, Panel, Draft
    <2> HIDE DEF draft
    <2>2. PanelSound(p, seen)
        BY <2>1, <1>1 DEF PanelSound, Panel
    <2>3. Becomes(p)
        BY <1>12 DEF LeaveEditor, draft
    <2> QED
        BY <2>2, <2>3, <1>5 DEF Kept
<1>13. ASSUME SaveDraft PROVE Kept
    <2>1. SaveRequest \in Request
        BY <1>1, <1>13, SaveRequestSound DEF SaveDraft, InEditor
    <2>2. PerformAs(opens, panel, [do |-> "save", request |-> SaveRequest], contexts)
        BY <1>13 DEF SaveDraft, Perform
    <2>3. CommandSound([do |-> "save", request |-> SaveRequest])
        BY <2>1, CommandsSound
    <2> QED
        BY <2>2, <2>3, <1>1, <1>4 DEF Kept
<1>14. ASSUME panel.definition # None
       PROVE  /\ SelectedOptions(panel) \in Options
              /\ SelectedOptions(panel).revision = panel.definition.revision
              /\ DOMAIN SelectedOptions(panel).fields = DOMAIN panel.definition.body.params
    BY <1>1, <1>14, OptionsShown
<1>15. ASSUME OpenForm PROVE Kept
    <2> DEFINE q == WithOptions(panel, SelectedOptions(panel))
    <2>1. PanelSound(q, seen)
        BY <1>1, <1>14, <1>15, WithOptionsSound DEF OpenForm
    <2> HIDE DEF q
    <2>2. PanelSound([q EXCEPT !.form = TRUE], seen)
        BY <2>1 DEF PanelSound, Panel
    <2>3. Becomes([q EXCEPT !.form = TRUE])
        BY <1>15 DEF OpenForm, q
    <2> QED
        BY <2>2, <2>3, <1>5 DEF Kept
<1>16. ASSUME LeaveForm PROVE Kept
    <2>1. PanelSound([panel EXCEPT !.form = FALSE], seen)
        BY <1>1 DEF PanelSound, Panel
    <2> QED
        BY <2>1, <1>5, <1>16 DEF LeaveForm, Kept
<1>17. ASSUME FillTimeout PROVE Kept
    <2>1. PICK text \in Texts : Becomes(WithOptions(panel, [SelectedOptions(panel) EXCEPT !.timeout = text]))
        BY <1>17 DEF FillTimeout
    <2> DEFINE o == [SelectedOptions(panel) EXCEPT !.timeout = text]
    <2>2. text \in AllTexts
        BY DEF AllTexts
    <2>3. /\ o \in Options /\ o.revision = panel.definition.revision
          /\ DOMAIN o.fields = DOMAIN panel.definition.body.params
        BY <2>2, <1>14, <1>17 DEF FillTimeout, Options
    <2> HIDE DEF o
    <2>4. PanelSound(WithOptions(panel, o), seen)
        BY <2>3, <1>1, <1>17, WithOptionsSound DEF FillTimeout
    <2> QED
        BY <2>1, <2>4, <1>5 DEF Kept, o
<1>18. ASSUME FillField PROVE Kept
    <2>1. PICK i \in DOMAIN SelectedOptions(panel).fields, text \in Texts :
            Becomes(WithOptions(panel,
                [SelectedOptions(panel) EXCEPT !.fields[i] = [text |-> text, supplied |-> TRUE]]))
        BY <1>18 DEF FillField
    <2> DEFINE o == [SelectedOptions(panel) EXCEPT !.fields[i] = [text |-> text, supplied |-> TRUE]]
    <2>2. [text |-> text, supplied |-> TRUE] \in Form
        BY DEF AllTexts, Form
    <2>3. PICK b \in Bodies : SelectedOptions(panel).fields \in [DOMAIN b.params -> Form]
        BY <1>14, <1>18 DEF FillField, Options, Forms
    <2>4. o.fields \in [DOMAIN b.params -> Form]
        BY <2>2, <2>3, <1>14, <1>18 DEF FillField, Options
    <2>5. DOMAIN o.fields = DOMAIN SelectedOptions(panel).fields
        BY <2>3, <2>4
    <2>6. o.fields \in Forms
        BY <2>4 DEF Forms
    <2>7. o \in Options /\ o.revision = panel.definition.revision
        BY <2>6, <1>14, <1>18 DEF FillField, Options
    <2> HIDE DEF o
    <2>8. PanelSound(WithOptions(panel, o), seen)
        BY <2>5, <2>7, <1>1, <1>14, <1>18, WithOptionsSound DEF FillField
    <2> QED
        BY <2>1, <2>8, <1>5 DEF Kept, o
<1>19. Kept
    BY <1>6, <1>7, <1>8, <1>9, <1>10, <1>11, <1>12, <1>13, <1>15, <1>16, <1>17, <1>18 DEF PanelKeys
<1> QED
    BY <1>3, <1>19 DEF Kept

-----------------------------------------------------------------------------
(* The task that reads and saves, and its answers *)

LEMMA CatalogGrows ==
    ASSUME [CatalogNext]_catalog
    PROVE  seen \subseteq seen'
<1> QED
    BY DEF CatalogNext, catalog, Look, Get, Save, SaveRefused, SaveFails, Restart

LEMMA ReplySoundMore ==
    ASSUME NEW r, NEW S, NEW T, S \subseteq T, ReplySound(r, S)
    PROVE  ReplySound(r, T)
<1> QED
    BY DEF ReplySound

LEMMA AnswerSound ==
    ASSUME TaskSound, commands # <<>>, NEW reply, Answer(reply), ReplySound(reply, seen'),
           seen \subseteq seen', UNCHANGED contexts
    PROVE  TaskSound'
<1>1. /\ IsList(contexts) /\ IsList(commands) /\ IsList(replies)
      /\ Len(contexts) = Len(commands) + Len(replies)
      /\ \A i \in DOMAIN commands : CommandSound(commands[i])
      /\ \A i \in DOMAIN replies : ReplySound(replies[i], seen)
    BY DEF TaskSound
<1>2. commands' = Tail(commands) /\ replies' = Append(replies, reply)
    BY DEF Answer
<1>3. /\ IsList(commands') /\ Len(commands') = Len(commands) - 1
      /\ \A i \in DOMAIN commands' : CommandSound(commands'[i])
    BY <1>1, <1>2, TailList
<1>4. /\ IsList(replies') /\ Len(replies') = Len(replies) + 1
      /\ \A i \in DOMAIN replies' : ReplySound(replies'[i], seen')
    BY <1>1, <1>2, AppendList, ReplySoundMore
<1>5. Len(contexts') = Len(commands') + Len(replies')
    <2>1. Len(commands) \in Nat /\ Len(replies) \in Nat
        BY <1>1, AppendList
    <2> QED
        BY <2>1, <1>1, <1>3, <1>4
<1>6. IsList(contexts')
    BY <1>1
<1> QED
    BY <1>3, <1>4, <1>5, <1>6 DEF TaskSound, IsList

LEMMA TaskStep ==
    ASSUME PanelAssumption, Invariant, Task \/ TaskFails
    PROVE  [CatalogNext]_catalog /\ PanelSound(panel, seen)' /\ TaskSound' /\ LineSound'
<1> DEFINE c == Head(commands)
<1>1. TaskSound /\ LineSound /\ PanelSound(panel, seen) /\ commands # <<>>
    BY DEF Invariant, Task, TaskFails
<1>2. CommandSound(c)
    BY <1>1, TailList DEF TaskSound
<1>3. UNCHANGED <<panel, contexts, app, inbox, pressed, started>>
    BY DEF Task, TaskFails, network, daemon
<1>4. seen \subseteq Definition /\ Loaded \in Catalogs /\ CatalogTypeOK
    BY DEF Invariant, CatalogInvariant, CatalogTypeOK, Loaded
<1> DEFINE Answered == \E reply : Answer(reply) /\ ReplySound(reply, seen')
<1> HIDE DEF c
<1>5. ASSUME [CatalogNext]_catalog, Answered
      PROVE  [CatalogNext]_catalog /\ PanelSound(panel, seen)' /\ TaskSound' /\ LineSound'
    <2>1. seen \subseteq seen'
        BY <1>5, CatalogGrows
    <2>2. PICK reply : Answer(reply) /\ ReplySound(reply, seen')
        BY <1>5
    <2>3. TaskSound'
        BY <2>1, <2>2, <1>1, <1>3, AnswerSound
    <2>4. LineSound'
        BY <2>1, <1>1, <1>3, LineUnchanged
    <2>5. PanelSound(panel', seen')
        BY <2>1, <1>1, <1>3, PanelSoundMore
    <2> QED
        BY <1>5, <2>3, <2>4, <2>5
<1>6. ASSUME c.do = "list", Look, Answer([is |-> "catalog", entries |-> Entries(Loaded, c.drafts)])
      PROVE  CatalogNext /\ Answered
    <2>1. ReplySound([is |-> "catalog", entries |-> Entries(Loaded, c.drafts)], seen')
        BY DEF ReplySound, Entries
    <2> QED
        BY <2>1, <1>6 DEF CatalogNext
<1>7. ASSUME c.do = "load", Get(c.id),
             Answer(IF Loaded[c.id] = None THEN [is |-> "failed"]
                    ELSE [is |-> "definition", definition |-> Loaded[c.id]])
      PROVE  CatalogNext /\ Answered
    <2>1. c.id \in Ids
        BY <1>2, <1>7 DEF CommandSound
    <2>2. CASE Loaded[c.id] = None
        <3>1. ReplySound([is |-> "failed"], seen')
            BY DEF ReplySound
        <3> QED
            BY <2>1, <2>2, <3>1, <1>7 DEF CatalogNext
    <2>3. CASE Loaded[c.id] # None
        <3>1. Loaded[c.id] \in seen'
            BY <2>3, <1>7 DEF Get
        <3>2. ReplySound([is |-> "definition", definition |-> Loaded[c.id]], seen')
            BY <3>1 DEF ReplySound
        <3> QED
            BY <2>1, <2>3, <3>2, <1>7 DEF CatalogNext
    <2> QED
        BY <2>2, <2>3
<1>8. ASSUME c.do = "save", Save(c.request), Answer([is |-> "saved", definition |-> Saved(Loaded, c.request)])
      PROVE  CatalogNext /\ Answered
    <2>1. c.request \in Request
        BY <1>2, <1>8 DEF CommandSound
    <2>2. Saved(Loaded, c.request) \in seen'
        BY <1>8 DEF Save
    <2>3. ReplySound([is |-> "saved", definition |-> Saved(Loaded, c.request)], seen')
        BY <2>2 DEF ReplySound
    <2> QED
        BY <2>1, <2>3, <1>8 DEF CatalogNext
<1>9. \A S : ReplySound([is |-> "failed"], S)
    BY DEF ReplySound
<1>10. ASSUME c.do = "save", Save(c.request) \/ SaveFails(c.request) \/ SaveRefused(c.request)
       PROVE  CatalogNext
    <2>1. c.request \in Request
        BY <1>2, <1>10 DEF CommandSound
    <2> QED
        BY <2>1, <1>10 DEF CatalogNext
<1>11. CASE Task
    <2>1. CatalogNext /\ Answered
        BY <1>6, <1>7, <1>8, <1>9, <1>10, <1>11 DEF Task, c
    <2> QED
        BY <2>1, <1>5
<1>12. CASE TaskFails
    <2>1. Answered
        BY <1>9, <1>12 DEF TaskFails
    <2>2. CatalogNext \/ UNCHANGED catalog
        BY <1>10, <1>12 DEF TaskFails, c
    <2> QED
        BY <2>1, <2>2, <1>5
<1> QED
    BY <1>11, <1>12

\* A set of numbers that is not empty has a least one.
LEMMA LeastExists ==
    ASSUME NEW S, S \subseteq Nat, S # {}
    PROVE  \E x \in S : \A y \in S : x <= y
<1>1. PICK x \in S : \A y \in S : ~(<<y, x>> \in OpToRel(<, Nat))
    BY NatLessThanWellFounded, WFMin
<1>2. \A y \in S : ~(y < x)
    BY <1>1 DEF OpToRel
<1> QED
    BY <1>2

\* Some id comes first.
LEMMA FirstFound ==
    ASSUME PanelAssumption, NEW entries, entries \subseteq Ids, entries # {}
    PROVE  First(entries) \in entries
<1> DEFINE R == {Rank[id] : id \in entries}
<1>1. R \subseteq Nat /\ R # {}
    BY DEF PanelAssumption
<1> HIDE DEF R
<1>2. PICK x \in R : \A y \in R : x <= y
    BY <1>1, LeastExists
<1>3. \E id \in entries : \A other \in entries : Rank[id] <= Rank[other]
    BY <1>2 DEF R
<1> QED
    BY <1>3 DEF First

LEMMA OnEventSound ==
    ASSUME PanelAssumption, NEW p, NEW S, PanelSound(p, S), S \subseteq Definition, NEW r, ReplySound(r, S)
    PROVE  PanelSound(OnEvent(p, r), S)
<1>1. CASE r.is = "catalog"
    <2>1. r.entries \subseteq Ids /\ OnEvent(p, r) = OnCatalog(p, r.entries)
        BY <1>1 DEF ReplySound, OnEvent
    <2>2. CASE r.entries = {}
        <3>1. OnEvent(p, r) = [p EXCEPT !.entries = {}, !.selected = None, !.definition = None]
            BY <2>1, <2>2 DEF OnCatalog
        <3> QED
            BY <3>1 DEF PanelSound, Panel
    <2>3. CASE r.entries # {} /\ Place(p, r.entries) \in Ids
        <3>1. OnEvent(p, r) = [p EXCEPT !.entries = r.entries, !.selected = Place(p, r.entries)]
            BY <2>1, <2>3 DEF OnCatalog
        <3> QED
            BY <3>1, <2>1, <2>3 DEF PanelSound, Panel
    <2>4. r.entries # {} => Place(p, r.entries) \in Ids
        BY <2>1, FirstFound DEF Place
    <2> QED
        BY <2>2, <2>3, <2>4
<1>2. CASE r.is = "definition"
    <2>1. r.definition \in S /\ r.definition \in Definition /\ r.definition.body \in Bodies
        BY <1>2 DEF ReplySound, Definition
    <2>2. OnEvent(p, r) = [p EXCEPT !.script = r.definition.body.script, !.definition = r.definition]
        BY <1>2 DEF OnEvent, OnDefinition
    <2>3. r.definition.body.script \in AllScripts
        BY <2>1 DEF AllScripts
    <2> QED
        BY <2>1, <2>2, <2>3 DEF PanelSound, Panel
<1>3. CASE r.is = "saved"
    <2>1. r.definition \in S /\ r.definition \in Definition
        BY <1>3 DEF ReplySound
    <2> DEFINE b == p.drafted \/ ~r.definition.body.shared
    <2>2. OnEvent(p, r) = [p EXCEPT !.drafts[DraftKey(p)] = None, !.drafted = b,
                                    !.editing = FALSE, !.definition = r.definition]
        BY <1>3 DEF OnEvent, OnSaved, PanelSound, Panel
    <2>3. b \in BOOLEAN
        BY DEF PanelSound, Panel
    <2> DEFINE q == [p EXCEPT !.drafts[DraftKey(p)] = None, !.editing = FALSE, !.definition = r.definition]
    <2>4. PanelSound(q, S)
        BY <2>1 DEF PanelSound, Panel
    <2>5. OnEvent(p, r) = [q EXCEPT !.drafted = b]
        BY <2>2 DEF PanelSound, Panel
    <2> HIDE DEF q, b
    <2>6. PanelSound([q EXCEPT !.drafted = b], S)
        BY <2>3, <2>4 DEF PanelSound, Panel
    <2> QED
        BY <2>5, <2>6
<1>4. CASE r.is = "failed"
    BY <1>4 DEF OnEvent
<1> QED
    BY <1>1, <1>2, <1>3, <1>4 DEF ReplySound

LEMMA ReplyStep ==
    ASSUME PanelAssumption, Invariant, Reply
    PROVE  UNCHANGED catalog /\ PanelSound(panel, seen)' /\ TaskSound' /\ LineSound'
<1> DEFINE r == Head(replies)
           p == OnEvent(panel, r)
<1>1. /\ PanelSound(panel, seen) /\ LineSound
      /\ IsList(contexts) /\ IsList(commands) /\ IsList(replies)
      /\ Len(contexts) = Len(commands) + Len(replies)
      /\ \A i \in DOMAIN commands : CommandSound(commands[i])
      /\ \A i \in DOMAIN replies : ReplySound(replies[i], seen)
    BY DEF Invariant, TaskSound
<1>2. UNCHANGED <<seen, app, inbox, pressed, started>> /\ UNCHANGED catalog
    BY DEF Reply, catalog, network, daemon
<1>3. /\ replies # <<>> /\ replies' = Tail(replies)
      /\ IsList(replies') /\ Len(replies') = Len(replies) - 1 /\ ReplySound(r, seen)
      /\ \A i \in DOMAIN replies' : ReplySound(replies'[i], seen')
    BY <1>1, <1>2, TailList DEF Reply
<1>4. Len(replies) \in Nat /\ Len(commands) \in Nat /\ Len(contexts) \in Nat
    BY <1>1, AppendList
<1>5. contexts # <<>>
    <2>1. Len(replies) >= 1
        BY <1>1, <1>3, <1>4, TailList, AppendList
    <2> QED
        BY <2>1, <1>1, <1>4, ShortList
<1>6. IsList(Tail(contexts)) /\ Len(Tail(contexts)) = Len(contexts) - 1
    BY <1>1, <1>5, TailList
<1>7. ASSUME /\ PanelSound(panel', seen) /\ IsList(contexts') /\ IsList(commands')
             /\ Len(contexts') - Len(commands') = Len(Tail(contexts)) - Len(commands)
             /\ \A i \in DOMAIN commands' : CommandSound(commands'[i])
      PROVE  UNCHANGED catalog /\ PanelSound(panel, seen)' /\ TaskSound' /\ LineSound'
    <2>1. Len(contexts') \in Nat /\ Len(commands') \in Nat /\ Len(replies') \in Nat
        BY <1>3, <1>7, AppendList
    <2>2. Len(contexts') = Len(commands') + Len(replies')
        BY <2>1, <1>1, <1>3, <1>4, <1>6, <1>7
    <2>3. TaskSound'
        BY <2>2, <1>3, <1>7 DEF TaskSound, IsList
    <2>4. PanelSound(panel', seen')
        BY <1>2, <1>7
    <2> QED
        BY <2>3, <2>4, <1>1, <1>2, LineUnchanged
<1> HIDE DEF r, p
<1>8. CASE Heard(p, r)
    <2>1. PanelSound(p, seen)
        BY <1>1, <1>3, GivenDefinitions, OnEventSound DEF p, Invariant
    <2>2. PanelSound([p EXCEPT !.busy = FALSE], seen)
        BY <2>1, BusySound
    <2> DEFINE q == [p EXCEPT !.busy = FALSE]
               command == AsksAfter(p, r)
    <2>3. command = None \/ CommandSound(command)
        <3>1. r.is = "catalog" /\ p.entries # {} => p.selected \in Ids
            <4>1. ASSUME r.is = "catalog", p.entries # {} PROVE p.selected \in Ids
                <5>1. r.entries \subseteq Ids /\ p = OnCatalog(panel, r.entries)
                    BY <4>1, <1>3 DEF ReplySound, p, OnEvent
                <5>2. r.entries # {}
                    BY <4>1, <5>1, <1>1 DEF OnCatalog, PanelSound, Panel
                <5>3. p.selected = Place(panel, r.entries)
                    BY <5>1, <5>2, <1>1 DEF OnCatalog, PanelSound, Panel
                <5> QED
                    BY <5>1, <5>2, <5>3, FirstFound DEF Place
            <4> QED
                BY <4>1
        <3> QED
            BY <3>1, CommandsSound DEF AsksAfter
    <2>4. PerformAs(opens, q, command, Tail(contexts))
        BY <1>8 DEF Heard, Perform
    <2> HIDE DEF q, command
    <2>5. PanelSound(q, seen)
        BY <2>2 DEF q
    <2> QED
        BY <2>3, <2>4, <2>5, <1>1, <1>6, <1>7, PerformSound
<1>9. CASE contexts' = Tail(contexts) /\ UNCHANGED <<panel, commands>>
    BY <1>1, <1>6, <1>7, <1>9
<1> QED
    BY <1>8, <1>9 DEF Reply, p, r

-----------------------------------------------------------------------------
(* What the console asks of the daemon *)

Silent(sent) == IsList(sent) /\ \A i \in DOMAIN sent : sent[i].is # "start"

LEMMA SilentMessages ==
    /\ Silent(<<>>)
    /\ \A m : m.is # "start" => Silent(<<m>>)
    /\ \A a : Silent(Releases(a))
<1>1. Silent(<<>>)
    BY ShortList DEF Silent
<1>2. ASSUME NEW m, m.is # "start" PROVE Silent(<<m>>)
    BY <1>2, ShortList DEF Silent
<1>3. \A lease : [is |-> "release", lease |-> lease].is # "start"
    OBVIOUS
<1>4. \A a : Silent(Releases(a))
    BY <1>1, <1>2, <1>3 DEF Releases
<1> QED
    BY <1>1, <1>2, <1>4

\* A record of the console keeps its shape.
LEMMA ShapeKept ==
    ASSUME NEW a, AppShaped(a)
    PROVE  /\ \A x : AppShaped([a EXCEPT !.operation = x]) /\ [a EXCEPT !.operation = x].pending = a.pending
           /\ \A x : AppShaped([a EXCEPT !.execution = x]) /\ [a EXCEPT !.execution = x].pending = a.pending
           /\ \A x : AppShaped([a EXCEPT !.requests = x]) /\ [a EXCEPT !.requests = x].pending = a.pending
           /\ \A x : AppShaped([a EXCEPT !.temporary = x]) /\ [a EXCEPT !.temporary = x].pending = a.pending
           /\ \A x : AppShaped([a EXCEPT !.acquiring = x]) /\ [a EXCEPT !.acquiring = x].pending = a.pending
           /\ \A x : AppShaped([a EXCEPT !.view = x]) /\ [a EXCEPT !.view = x].pending = a.pending
           /\ \A x : AppShaped([a EXCEPT !.pending = x]) /\ [a EXCEPT !.pending = x].pending = x
<1> QED
    BY DEF AppShaped

\* start_human_macro asks for control, or for the Macro, or for nothing.
StartOutcome(r, a, press, spec) ==
    /\ AppShaped(r.app) /\ r.busy \in BOOLEAN
    /\ \/ Silent(r.sent) /\ r.app.pending = a.pending
       \/ Silent(r.sent) /\ r.app.pending = [press |-> press, spec |-> spec]
       \/ /\ r.app.pending = a.pending
          /\ \E lease : r.sent = <<[is |-> "start", operation |-> press, lease |-> lease, spec |-> spec]>>

LEMMA StartMeans ==
    ASSUME NEW a, AppShaped(a), NEW press, NEW spec
    PROVE  StartOutcome(Start(a, press, spec), a, press, spec)
<1>1. \A b, busy, sent : /\ Result(b, busy, sent).app = b /\ Result(b, busy, sent).busy = busy
                         /\ Result(b, busy, sent).sent = sent
    BY DEF Result
<1>2. ASSUME NEW b, AppShaped(b), NEW busy \in BOOLEAN, NEW sent, Silent(sent),
             b.pending = a.pending \/ b.pending = [press |-> press, spec |-> spec]
      PROVE  StartOutcome(Result(b, busy, sent), a, press, spec)
    <2> DEFINE r == Result(b, busy, sent)
    <2>1. r.app = b /\ r.busy = busy /\ r.sent = sent
        BY <1>1
    <2> HIDE DEF r
    <2>2. StartOutcome(r, a, press, spec)
        BY <1>2, <2>1 DEF StartOutcome
    <2> QED
        BY <2>2 DEF r
<1>3. ASSUME NEW b, AppShaped(b), NEW busy \in BOOLEAN, NEW sent, b.pending = a.pending,
             \E lease : sent = <<[is |-> "start", operation |-> press, lease |-> lease, spec |-> spec]>>
      PROVE  StartOutcome(Result(b, busy, sent), a, press, spec)
    <2> DEFINE r == Result(b, busy, sent)
    <2>1. r.app = b /\ r.busy = busy /\ r.sent = sent
        BY <1>1
    <2> HIDE DEF r
    <2>2. StartOutcome(r, a, press, spec)
        BY <1>3, <2>1 DEF StartOutcome
    <2> QED
        BY <2>2 DEF r
<1> DEFINE waits == [a EXCEPT !.pending = [press |-> press, spec |-> spec], !.acquiring = press]
           asks == [a EXCEPT !.operation = press, !.requests = @ \cup {[do |-> "start", operation |-> press]}]
           start == <<[is |-> "start", operation |-> press, lease |-> a.view.lease, spec |-> spec]>>
<1>4. StartOutcome(Result(a, FALSE, <<>>), a, press, spec)
    BY <1>2, SilentMessages
<1>5. StartOutcome(Result(waits, TRUE, <<[is |-> "acquire", press |-> press]>>), a, press, spec)
    <2>1. AppShaped(waits) /\ waits.pending = [press |-> press, spec |-> spec]
        BY DEF AppShaped
    <2>2. Silent(<<[is |-> "acquire", press |-> press]>>)
        BY SilentMessages
    <2> HIDE DEF waits
    <2> QED
        BY <2>1, <2>2, <1>2
<1>6. StartOutcome(Result(asks, TRUE, start), a, press, spec)
    <2>1. AppShaped(asks) /\ asks.pending = a.pending
        BY DEF AppShaped
    <2>2. \E lease : start = <<[is |-> "start", operation |-> press, lease |-> lease, spec |-> spec]>>
        OBVIOUS
    <2> HIDE DEF asks, start
    <2> QED
        BY <2>1, <2>2, <1>3
<1>7. StartOutcome(Result(Released(a), FALSE, Releases(a)), a, press, spec)
    <2>1. AppShaped(Released(a)) /\ Released(a).pending = a.pending
        BY ShapeKept DEF Released
    <2> QED
        BY <2>1, <1>2, SilentMessages
<1>8. \/ Start(a, press, spec) = Result(a, FALSE, <<>>)
      \/ Start(a, press, spec) = Result(waits, TRUE, <<[is |-> "acquire", press |-> press]>>)
      \/ Start(a, press, spec) = Result(asks, TRUE, start)
      \/ Start(a, press, spec) = Result(Released(a), FALSE, Releases(a))
    BY Zenon DEF Start
<1> HIDE DEF waits, asks, start
<1> QED
    BY <1>4, <1>5, <1>6, <1>7, <1>8

\* A message of the daemon settles requests.  Control that was waited for lets the
\* start that waits go on.
HandledOutcome(r, a) ==
    /\ AppShaped(r.app) /\ r.busy \in BOOLEAN \cup {None}
    /\ \/ Silent(r.sent) /\ r.app.pending \in {a.pending, None}
       \/ /\ a.pending # None /\ Silent(r.sent)
          /\ r.app.pending = [press |-> a.pending.press, spec |-> a.pending.spec]
       \/ /\ a.pending # None /\ r.app.pending = None
          /\ \E lease : r.sent = <<[is |-> "start", operation |-> a.pending.press, lease |-> lease,
                                    spec |-> a.pending.spec]>>

LEMMA HandledMeans ==
    ASSUME NEW a, AppShaped(a), NEW m, m.is \in Kinds
    PROVE  HandledOutcome(Handled(a, m), a)
<1>1. \A b, busy, sent : /\ Result(b, busy, sent).app = b /\ Result(b, busy, sent).busy = busy
                         /\ Result(b, busy, sent).sent = sent
    BY DEF Result
<1>2. ASSUME NEW b, NEW busy \in BOOLEAN \cup {None}, NEW sent, Silent(sent), AppShaped(b),
             b.pending \in {a.pending, None}
      PROVE  HandledOutcome(Result(b, busy, sent), a)
    BY <1>1, <1>2 DEF HandledOutcome
<1>3. \A b : AppShaped(b) => AppShaped(Released(b)) /\ Released(b).pending = b.pending
    BY ShapeKept DEF Released
<1>4. ASSUME NEW b, AppShaped(b), b.pending = a.pending, NEW e PROVE HandledOutcome(Record(b, e), a)
    <2> DEFINE over == [b EXCEPT !.operation = IF @ = e.operation THEN None ELSE @, !.temporary = None,
                                 !.execution = e]
    <2>1. AppShaped(over) /\ over.pending = a.pending
        BY <1>4 DEF AppShaped
    <2>2. AppShaped([b EXCEPT !.execution = e]) /\ [b EXCEPT !.execution = e].pending = a.pending
        BY <1>4, ShapeKept
    <2> HIDE DEF over
    <2>3. HandledOutcome(Result(b, None, <<>>), a)
        BY <1>2, <1>4, SilentMessages
    <2>4. HandledOutcome(Result([b EXCEPT !.execution = e], FALSE, <<>>), a)
        BY <1>2, <2>2, SilentMessages
    <2>5. HandledOutcome(Result(over, FALSE, <<>>), a) /\ HandledOutcome(Result(over, FALSE, Releases(b)), a)
        BY <1>2, <2>1, SilentMessages
    <2> QED
        BY <2>3, <2>4, <2>5 DEF Record, over
<1>5. CASE m.is = "granted"
    <2> DEFINE held == [a EXCEPT !.acquiring = None, !.view = m.view]
               freed == [held EXCEPT !.pending = None, !.temporary = m.view.lease]
    <2>1. AppShaped(held) /\ held.pending = a.pending
        BY DEF AppShaped
    <2> HIDE DEF held
    <2>2. AppShaped(freed) /\ freed.pending = None
        BY <2>1 DEF AppShaped
    <2> HIDE DEF freed
    <2>3. HandledOutcome(Result(a, None, <<>>), a) /\ HandledOutcome(Result(held, None, <<>>), a)
        BY <1>2, <2>1, SilentMessages
    <2>4. ASSUME a.pending # None, a.pending.press = m.press
          PROVE  HandledOutcome(Start(freed, m.press, a.pending.spec), a)
        <3>1. StartOutcome(Start(freed, m.press, a.pending.spec), freed, m.press, a.pending.spec)
            BY <2>2, StartMeans
        <3> QED
            BY <3>1, <2>2, <2>4 DEF StartOutcome, HandledOutcome
    <2> QED
        BY <2>3, <2>4, <1>5 DEF Handled, Granted, held, freed
<1>6. CASE m.is = "refused"
    <2>1. AppShaped([a EXCEPT !.acquiring = None]) /\ [a EXCEPT !.acquiring = None].pending = a.pending
        BY ShapeKept
    <2> DEFINE b == [a EXCEPT !.pending = None, !.acquiring = None]
    <2>2. AppShaped(b) /\ b.pending = None
        BY DEF AppShaped
    <2> HIDE DEF b
    <2>3. /\ HandledOutcome(Result([a EXCEPT !.acquiring = None], None, <<>>), a)
          /\ HandledOutcome(Result(a, None, <<>>), a) /\ HandledOutcome(Result(b, FALSE, <<>>), a)
        BY <1>2, <2>1, <2>2, SilentMessages
    <2> QED
        BY <2>3, <1>6 DEF Handled, Refused, b
<1>7. CASE m.is = "error"
    <2> DEFINE b == [a EXCEPT !.requests = @ \ {m.request}]
               none == [b EXCEPT !.operation = None, !.execution = None, !.temporary = None]
               free == [Released(b) EXCEPT !.operation = None]
    <2>1. AppShaped(b) /\ b.pending = a.pending
        BY DEF AppShaped
    <2> HIDE DEF b
    <2>2. AppShaped(none) /\ none.pending = a.pending
        BY <2>1 DEF AppShaped
    <2>3. AppShaped(free) /\ free.pending = a.pending
        BY <2>1, <1>3, ShapeKept
    <2> HIDE DEF none, free
    <2>4. /\ HandledOutcome(Result(a, None, <<>>), a)
          /\ HandledOutcome(Result(b, FALSE, <<>>), a) /\ HandledOutcome(Result(b, FALSE, Releases(a)), a)
          /\ HandledOutcome(Result(none, FALSE, <<>>), a) /\ HandledOutcome(Result(none, FALSE, Releases(a)), a)
          /\ HandledOutcome(Result(free, FALSE, <<>>), a) /\ HandledOutcome(Result(free, FALSE, Releases(a)), a)
        BY <1>2, <2>1, <2>2, <2>3, SilentMessages
    <2> QED
        BY <2>4, <1>7 DEF Handled, Failed, b, none, free
<1>8. CASE m.is = "result"
    <2> DEFINE b == [a EXCEPT !.requests = @ \ {m.request}]
    <2>1. AppShaped(b) /\ b.pending = a.pending
        BY DEF AppShaped
    <2> HIDE DEF b
    <2>2. HandledOutcome(Record(b, m.execution), a)
        BY <2>1, <1>4
    <2> QED
        BY <2>2, <1>8 DEF Handled, b
<1>9. CASE m.is = "event"
    <2>1. HandledOutcome(Record(a, m.execution), a)
        BY <1>4
    <2> QED
        BY <2>1, <1>9 DEF Handled
<1>10. CASE m.is = "control"
    <2>1. AppShaped([a EXCEPT !.view = m.view]) /\ [a EXCEPT !.view = m.view].pending = a.pending
        BY ShapeKept
    <2>2. HandledOutcome(Result([a EXCEPT !.view = m.view], None, <<>>), a)
        BY <2>1, <1>2, SilentMessages
    <2> QED
        BY <2>2, <1>10 DEF Handled
<1>11. CASE m.is = "session"
    <2> DEFINE b == [a EXCEPT !.view = None, !.acquiring = None]
    <2>1. AppShaped(b) /\ b.pending = a.pending
        BY DEF AppShaped
    <2> HIDE DEF b
    <2>2. HandledOutcome(Result(b, None, <<>>), a)
        BY <2>1, <1>2, SilentMessages
    <2> QED
        BY <2>2, <1>11 DEF Handled, b
<1> QED
    BY <1>5, <1>6, <1>7, <1>8, <1>9, <1>10, <1>11 DEF Kinds


-----------------------------------------------------------------------------
(* The connection *)

LEMMA TaskUnchanged ==
    ASSUME TaskSound, UNCHANGED <<contexts, commands, replies>>, seen \subseteq seen'
    PROVE  TaskSound'
<1> QED
    BY ReplySoundMore DEF TaskSound, IsList

LEMMA MeantMore ==
    ASSUME NEW press, NEW spec, NEW shown, NEW S, NEW T, S \subseteq T, Meant(press, spec, shown, S)
    PROVE  Meant(press, spec, shown, T)
<1> QED
    BY DEF Meant

\* A press that neither waits on the connection nor has run.
Allowed(press, spec, shown) ==
    /\ Meant(press, spec, shown, seen)
    /\ \A i \in Asked : inbox[i].operation # press
    /\ \A j \in DOMAIN started : started[j].press # press

\* Messages leave the connection, in their order, and none comes.
LEMMA LineTaken ==
    ASSUME LineSound, NEW k \in Nat, IsList(inbox'), Len(inbox') <= Link, AppShaped(app'),
           \A i \in Asked' : i + k \in Asked /\ inbox'[i] = inbox[i + k],
           app'.pending # None => app'.pending = app.pending,
           UNCHANGED <<pressed, started>>, seen \subseteq seen'
    PROVE  LineSound'
<1>1. \A press, spec : Meant(press, spec, pressed, seen) => Meant(press, spec, pressed', seen')
    BY MeantMore
<1>2. AsksMeant'
    BY <1>1 DEF LineSound, AsksMeant
<1>3. PressesFit' /\ StartedMeant' /\ IsList(pressed') /\ IsList(started')
    BY DEF LineSound, PressesFit, StartedMeant, IsList
<1>4. \A i \in Asked' : i \in Nat
    BY AppendList DEF Asked
<1>5. Once'
    <2>1. /\ \A i, j \in Asked : inbox[i].operation = inbox[j].operation => i = j
          /\ \A i \in Asked, j \in DOMAIN started : inbox[i].operation # started[j].press
        BY DEF LineSound, Once
    <2>2. \A i, j \in Asked' : inbox'[i].operation = inbox'[j].operation => i = j
        <3> SUFFICES ASSUME NEW i \in Asked', NEW j \in Asked', inbox'[i].operation = inbox'[j].operation
                     PROVE  i = j
            OBVIOUS
        <3>1. i + k \in Asked /\ j + k \in Asked /\ inbox[i + k].operation = inbox[j + k].operation
            OBVIOUS
        <3>2. i + k = j + k
            BY <3>1, <2>1
        <3>3. i \in Nat /\ j \in Nat
            BY <1>4
        <3> QED
            BY <3>2, <3>3
    <2>3. \A i \in Asked', j \in DOMAIN started' : inbox'[i].operation # started'[j].press
        BY <2>1
    <2>4. \A i, j \in DOMAIN started' : started'[i].press = started'[j].press => i = j
        BY DEF LineSound, Once
    <2>5. app'.pending # None =>
             /\ \A i \in Asked' : inbox'[i].operation # app'.pending.press
             /\ \A j \in DOMAIN started' : started'[j].press # app'.pending.press
        BY DEF LineSound, Once
    <2> QED
        BY <2>2, <2>3, <2>4, <2>5 DEF Once
<1> QED
    BY <1>2, <1>3, <1>5 DEF LineSound, IsList, AppShaped

\* What is asked after messages of the console were put on the connection.
LEMMA AskedSilent ==
    ASSUME IsList(inbox), NEW sent, Silent(sent), inbox' = inbox \/ inbox' = inbox \o sent
    PROVE  IsList(inbox') /\ \A i \in Asked' : i \in Asked /\ inbox'[i] = inbox[i]
<1>1. CASE inbox' = inbox
    BY <1>1 DEF Asked
<1>2. CASE inbox' = inbox \o sent
    <2>1. IsList(inbox') /\ \A i \in DOMAIN inbox' :
            \/ i \in DOMAIN inbox /\ inbox'[i] = inbox[i]
            \/ i \notin DOMAIN inbox /\ i - Len(inbox) \in DOMAIN sent /\ inbox'[i] = sent[i - Len(inbox)]
        BY <1>2, ConcatList DEF Silent
    <2> QED
        BY <2>1 DEF Asked, Silent
<1> QED
    BY <1>1, <1>2

LEMMA AskedStart ==
    ASSUME IsList(inbox), NEW m, m.is = "start", inbox' = inbox \/ inbox' = inbox \o <<m>>
    PROVE  /\ IsList(inbox')
           /\ \A i \in Asked' :
                 \/ i \in Asked /\ inbox'[i] = inbox[i]
                 \/ i = Len(inbox) + 1 /\ i \notin Asked /\ inbox'[i] = m
<1>1. CASE inbox' = inbox
    BY <1>1 DEF Asked
<1>2. CASE inbox' = inbox \o <<m>>
    <2>1. IsList(inbox') /\ \A i \in DOMAIN inbox' :
            \/ i \in DOMAIN inbox /\ inbox'[i] = inbox[i]
            \/ i \notin DOMAIN inbox /\ i - Len(inbox) \in DOMAIN <<m>> /\ inbox'[i] = <<m>>[i - Len(inbox)]
        BY <1>2, ConcatList, ShortList
    <2>2. Len(inbox) \in Nat /\ \A i \in DOMAIN inbox' : i \in Nat
        BY <2>1, AppendList
    <2>3. \A i \in DOMAIN inbox' : i - Len(inbox) \in DOMAIN <<m>> => i = Len(inbox) + 1 /\ <<m>>[i - Len(inbox)] = m
        BY <2>2, ShortList
    <2> QED
        BY <2>1, <2>3 DEF Asked
<1> QED
    BY <1>1, <1>2

\* The console puts messages on the connection, among them one start at most.
LEMMA LineSent ==
    ASSUME LineSound, NEW r, NEW p, Apply(r, p), AppShaped(r.app), UNCHANGED <<seen, started>>,
           IsList(pressed'), PressesFit', StartedMeant',
           \A press, spec : Meant(press, spec, pressed, seen) => Meant(press, spec, pressed', seen),
           r.app.pending # None => Allowed(r.app.pending.press, r.app.pending.spec, pressed'),
           \/ Silent(r.sent)
           \/ \E press, spec, lease :
                 /\ r.sent = <<[is |-> "start", operation |-> press, lease |-> lease, spec |-> spec]>>
                 /\ Allowed(press, spec, pressed')
                 /\ r.app.pending # None => r.app.pending.press # press
    PROVE  LineSound'
<1>1. app' = r.app /\ inbox' = IF Room(Len(r.sent)) THEN inbox \o r.sent ELSE inbox
    BY DEF Apply
<1>2. /\ IsList(inbox) /\ Len(inbox) <= Link /\ IsList(started') /\ AsksMeant /\ Once
    BY DEF LineSound, IsList
<1>3. ASSUME IsList(r.sent) PROVE Len(inbox') <= Link
    BY <1>1, <1>2, <1>3, ConcatList DEF Room
<1>4. CASE Silent(r.sent)
    <2>1. IsList(inbox') /\ \A i \in Asked' : i \in Asked /\ inbox'[i] = inbox[i]
        BY <1>1, <1>2, <1>4, AskedSilent
    <2>2. AsksMeant'
        BY <2>1, <1>1, <1>2 DEF AsksMeant, Allowed
    <2>3. Once'
        <3>1. \A i, j \in Asked' : inbox'[i].operation = inbox'[j].operation => i = j
            BY <2>1, <1>2 DEF Once, Allowed
        <3>2. \A i \in Asked', j \in DOMAIN started' : inbox'[i].operation # started'[j].press
            BY <2>1, <1>2 DEF Once, Allowed
        <3>3. \A i, j \in DOMAIN started' : started'[i].press = started'[j].press => i = j
            BY <1>2 DEF Once
        <3>4. app'.pending # None =>
                 /\ \A i \in Asked' : inbox'[i].operation # app'.pending.press
                 /\ \A j \in DOMAIN started' : started'[j].press # app'.pending.press
            BY <2>1, <1>1 DEF Allowed
        <3> QED
            BY <3>1, <3>2, <3>3, <3>4 DEF Once
    <2>4. Len(inbox') <= Link
        BY <1>3, <1>4 DEF Silent
    <2> QED
        BY <2>1, <2>2, <2>3, <2>4, <1>1, <1>2 DEF LineSound, AppShaped, IsList
<1>5. ASSUME NEW press, NEW spec, NEW lease,
             r.sent = <<[is |-> "start", operation |-> press, lease |-> lease, spec |-> spec]>>,
             Allowed(press, spec, pressed'), r.app.pending # None => r.app.pending.press # press
      PROVE  LineSound'
    <2> DEFINE m == [is |-> "start", operation |-> press, lease |-> lease, spec |-> spec]
    <2>1. m.is = "start" /\ m.operation = press /\ m.spec = spec /\ r.sent = <<m>>
        BY <1>5
    <2> HIDE DEF m
    <2>2. /\ IsList(inbox')
          /\ \A i \in Asked' :
                \/ i \in Asked /\ inbox'[i] = inbox[i]
                \/ i = Len(inbox) + 1 /\ i \notin Asked /\ inbox'[i] = m
        BY <2>1, <1>1, <1>2, AskedStart
    <2>3. AsksMeant'
        BY <2>1, <2>2, <1>1, <1>2, <1>5 DEF AsksMeant, Allowed
    <2>4. Once'
        <3>1. \A i, j \in Asked' : inbox'[i].operation = inbox'[j].operation => i = j
            BY <2>1, <2>2, <1>2, <1>5 DEF Once, Allowed
        <3>2. \A i \in Asked', j \in DOMAIN started' : inbox'[i].operation # started'[j].press
            BY <2>1, <2>2, <1>2, <1>5 DEF Once, Allowed
        <3>3. \A i, j \in DOMAIN started' : started'[i].press = started'[j].press => i = j
            BY <1>2 DEF Once
        <3>4. app'.pending # None =>
                 /\ \A i \in Asked' : inbox'[i].operation # app'.pending.press
                 /\ \A j \in DOMAIN started' : started'[j].press # app'.pending.press
            BY <2>1, <2>2, <1>1, <1>5 DEF Allowed
        <3> QED
            BY <3>1, <3>2, <3>3, <3>4 DEF Once
    <2>5. Len(inbox') <= Link
        BY <2>1, <1>3, ShortList
    <2> QED
        BY <2>2, <2>3, <2>4, <2>5, <1>1, <1>2 DEF LineSound, AppShaped, IsList
<1> QED
    BY <1>4, <1>5

\* What waits for control may still be started.
LEMMA PendingAllowed ==
    ASSUME LineSound, app.pending # None
    PROVE  Allowed(app.pending.press, app.pending.spec, pressed)
<1> QED
    BY DEF LineSound, AsksMeant, Once, Allowed

LEMMA ApplySound ==
    ASSUME NEW r, NEW p, Apply(r, p), NEW S, PanelSound(p, S), r.busy \in BOOLEAN \cup {None}
    PROVE  PanelSound(panel', S)
<1>1. panel' = p \/ (r.busy \in BOOLEAN /\ panel' = [p EXCEPT !.busy = r.busy])
    BY DEF Apply
<1> QED
    BY <1>1, BusySound

\* The console hears, or asks for what is no start.
LEMMA AppStep ==
    ASSUME PanelSound(panel, seen), TaskSound, LineSound,
           NEW r, Apply(r, panel), HandledOutcome(r, app),
           UNCHANGED <<seen, contexts, commands, replies, pressed, started>>
    PROVE  PanelSound(panel, seen)' /\ TaskSound' /\ LineSound'
<1>1. PanelSound(panel', seen')
    BY ApplySound DEF HandledOutcome
<1>2. TaskSound'
    BY TaskUnchanged
<1>3. IsList(pressed') /\ PressesFit' /\ StartedMeant'
    BY DEF LineSound, PressesFit, StartedMeant, IsList
<1>4. app.pending # None => Allowed(app.pending.press, app.pending.spec, pressed')
    BY PendingAllowed
<1>5. r.app.pending # None => Allowed(r.app.pending.press, r.app.pending.spec, pressed')
    BY <1>4 DEF HandledOutcome
<1>6. \/ Silent(r.sent)
      \/ \E press, spec, lease :
            /\ r.sent = <<[is |-> "start", operation |-> press, lease |-> lease, spec |-> spec]>>
            /\ Allowed(press, spec, pressed')
            /\ r.app.pending # None => r.app.pending.press # press
    BY <1>4 DEF HandledOutcome
<1>7. AppShaped(r.app) /\ \A press, spec : Meant(press, spec, pressed, seen) => Meant(press, spec, pressed', seen)
    BY DEF HandledOutcome
<1>8. LineSound'
    BY <1>3, <1>5, <1>6, <1>7, LineSent
<1> QED
    BY <1>1, <1>2, <1>8

\* Ctrl-R: the Macro as the panel shows it.
LEMMA PressStep ==
    ASSUME PanelAssumption, Invariant, Press
    PROVE  UNCHANGED catalog /\ PanelSound(panel, seen)' /\ TaskSound' /\ LineSound'
<1> DEFINE d == panel.definition
           options == SelectedOptions(panel)
           spec == RunSpec(d, options)
           press == Len(pressed) + 1
           shown == [body |-> d.body, args |-> spec.args]
           p == [WithOptions(panel, options) EXCEPT !.form = FALSE]
           r == Start(app, press, spec)
<1>1. /\ PanelSound(panel, seen) /\ TaskSound /\ LineSound /\ seen \subseteq Definition
      /\ \A x, y \in seen : x.id = y.id /\ x.revision = y.revision => x.body = y.body
    BY GivenDefinitions DEF Invariant
<1>2. /\ CanRun(d, options) /\ pressed' = Append(pressed, shown) /\ Apply(r, p) /\ d # None
      /\ UNCHANGED catalog /\ UNCHANGED <<seen, contexts, commands, replies, started>>
    BY DEF Press, catalog, daemon
<1>3. /\ d \in Definition /\ d \in seen /\ options \in Options /\ options.revision = d.revision
      /\ DOMAIN options.fields = DOMAIN d.body.params
    BY <1>1, <1>2, OptionsShown
<1>4. PanelSound(p, seen)
    <2>1. PanelSound(WithOptions(panel, options), seen)
        BY <1>1, <1>2, <1>3, WithOptionsSound
    <2> QED
        BY <2>1 DEF PanelSound, Panel
<1>5. /\ spec.id = d.id /\ spec.revision = d.revision
      /\ spec.args = [i \in DOMAIN options.fields |-> options.fields[i].text]
    BY DEF RunSpec
<1>6. TypedArgs(d.body, spec.args)
    BY <1>2, <1>3, <1>5 DEF TypedArgs, CanRun
<1>7. StartOutcome(r, app, press, spec)
    BY <1>1, StartMeans DEF LineSound
<1>8. shown.body = d.body /\ shown.args = spec.args
    OBVIOUS
<1> HIDE DEF d, options, spec, shown, p, r
<1>9. /\ IsList(pressed') /\ DOMAIN pressed' = DOMAIN pressed \cup {press} /\ press \notin DOMAIN pressed
      /\ pressed'[press] = shown /\ \A i \in DOMAIN pressed : pressed'[i] = pressed[i]
    BY <1>1, <1>2, AppendList DEF LineSound
<1> HIDE DEF press
<1>10. \A q, s : Meant(q, s, pressed, seen) => Meant(q, s, pressed', seen) /\ q # press
    BY <1>9 DEF Meant
<1>11. Meant(press, spec, pressed', seen)
    BY <1>3, <1>5, <1>8, <1>9 DEF Meant
<1>12. Allowed(press, spec, pressed')
    <2>1. \A i \in Asked : inbox[i].operation # press
        BY <1>1, <1>10 DEF LineSound, AsksMeant
    <2>2. \A j \in DOMAIN started : started[j].press # press
        BY <1>1, <1>9 DEF LineSound, StartedMeant
    <2> QED
        BY <2>1, <2>2, <1>11 DEF Allowed
<1>13. app.pending # None => Allowed(app.pending.press, app.pending.spec, pressed') /\ app.pending.press # press
    BY <1>1, <1>10, PendingAllowed DEF Allowed
<1>14. PressesFit'
    BY <1>1, <1>6, <1>8, <1>9 DEF LineSound, PressesFit
<1>15. StartedMeant'
    BY <1>1, <1>2, <1>9 DEF LineSound, StartedMeant
<1>16. r.app.pending # None => Allowed(r.app.pending.press, r.app.pending.spec, pressed')
    BY <1>7, <1>12, <1>13 DEF StartOutcome
<1>17. \/ Silent(r.sent)
       \/ \E q, s, lease :
             /\ r.sent = <<[is |-> "start", operation |-> q, lease |-> lease, spec |-> s]>>
             /\ Allowed(q, s, pressed')
             /\ r.app.pending # None => r.app.pending.press # q
    BY <1>7, <1>12, <1>13 DEF StartOutcome
<1>18. LineSound'
    BY <1>1, <1>2, <1>7, <1>9, <1>10, <1>14, <1>15, <1>16, <1>17, LineSent DEF StartOutcome
<1>19. PanelSound(panel', seen')
    BY <1>2, <1>4, <1>7, ApplySound DEF StartOutcome
<1>20. TaskSound'
    BY <1>1, <1>2, TaskUnchanged
<1> QED
    BY <1>2, <1>18, <1>19, <1>20

\* The other steps of the console on the connection.
LEMMA ConsoleStep ==
    ASSUME PanelAssumption, Invariant, Stop \/ Poll \/ Type \/ Receive
    PROVE  UNCHANGED catalog /\ PanelSound(panel, seen)' /\ TaskSound' /\ LineSound'
<1>1. PanelSound(panel, seen) /\ TaskSound /\ LineSound /\ OutboxSound /\ AppShaped(app)
    BY DEF Invariant, LineSound
<1>2. UNCHANGED <<memory, file, seen, contexts, commands, replies, pressed, started>>
    BY DEF Stop, Poll, Type, Receive, catalog, daemon
<1>3. UNCHANGED catalog
    BY <1>2 DEF catalog
<1>4. ASSUME NEW r, Apply(r, panel), HandledOutcome(r, app)
      PROVE  PanelSound(panel, seen)' /\ TaskSound' /\ LineSound'
    BY <1>1, <1>2, <1>4, AppStep
<1>5. \A b, busy, sent : /\ Result(b, busy, sent).app = b /\ Result(b, busy, sent).busy = busy
                         /\ Result(b, busy, sent).sent = sent
    BY DEF Result
<1>6. ASSUME NEW b, AppShaped(b), b.pending = app.pending, NEW busy \in BOOLEAN \cup {None}, NEW sent,
             Silent(sent), Apply(Result(b, busy, sent), panel)
      PROVE  PanelSound(panel, seen)' /\ TaskSound' /\ LineSound'
    <2> DEFINE r == Result(b, busy, sent)
    <2>1. r.app = b /\ r.busy = busy /\ r.sent = sent /\ Apply(r, panel)
        BY <1>5, <1>6
    <2> HIDE DEF r
    <2>2. HandledOutcome(r, app)
        BY <1>6, <2>1 DEF HandledOutcome
    <2> QED
        BY <2>1, <2>2, <1>4
<1> DEFINE Kept == PanelSound(panel, seen)' /\ TaskSound' /\ LineSound'
<1> HIDE DEF Kept
<1>7. ASSUME Stop PROVE Kept
    <2> DEFINE request == [do |-> "cancel", operation |-> app.execution.operation]
               b == [app EXCEPT !.requests = @ \cup {request}]
               sent == <<[is |-> "ask", request |-> request]>>
    <2>1. AppShaped(b) /\ b.pending = app.pending
        BY <1>1 DEF AppShaped
    <2>2. Silent(sent)
        BY SilentMessages
    <2>3. \/ Apply(Result(b, None, sent), panel)
          \/ Apply(Result(app, None, <<>>), panel) \/ Apply(Result(app, FALSE, <<>>), panel)
        BY <1>7 DEF Stop
    <2> HIDE DEF b, sent
    <2> QED
        BY <2>1, <2>2, <2>3, <1>1, <1>6, SilentMessages DEF Kept
<1>8. ASSUME Poll PROVE Kept
    <2>1. PICK request : Apply(Result([app EXCEPT !.requests = {request}], None,
                                      <<[is |-> "ask", request |-> request]>>), panel)
        BY <1>8 DEF Poll
    <2>2. AppShaped([app EXCEPT !.requests = {request}]) /\ [app EXCEPT !.requests = {request}].pending = app.pending
        BY <1>1, ShapeKept
    <2>3. Silent(<<[is |-> "ask", request |-> request]>>)
        BY SilentMessages
    <2> QED
        BY <2>1, <2>2, <2>3, <1>6 DEF Kept
<1>9. ASSUME Type PROVE Kept
    <2>1. Apply(Result(Released(app), None, <<[is |-> "command"]>>), panel)
        BY <1>9 DEF Type
    <2>2. AppShaped(Released(app)) /\ Released(app).pending = app.pending
        BY <1>1, ShapeKept DEF Released
    <2>3. Silent(<<[is |-> "command"]>>)
        BY SilentMessages
    <2> QED
        BY <2>1, <2>2, <2>3, <1>6 DEF Kept
<1>10. ASSUME Receive PROVE Kept
    <2>1. Head(outbox).is \in Kinds
        BY <1>1, <1>10, TailList DEF OutboxSound, Receive
    <2>2. HandledOutcome(Handled(app, Head(outbox)), app)
        BY <2>1, <1>1, HandledMeans
    <2>3. Apply(Handled(app, Head(outbox)), panel)
        BY <1>10 DEF Receive
    <2> QED
        BY <2>2, <2>3, <1>4 DEF Kept
<1> QED
    BY <1>3, <1>7, <1>8, <1>9, <1>10 DEF Kept

-----------------------------------------------------------------------------
(* The daemon *)

\* The head of the connection is taken.
LEMMA AskedTail ==
    ASSUME IsList(inbox), inbox # <<>>, inbox' = Tail(inbox)
    PROVE  /\ IsList(inbox') /\ Len(inbox') = Len(inbox) - 1 /\ Len(inbox) \in Nat
           /\ \A i \in Asked' : i \in Nat \ {0} /\ i + 1 \in Asked /\ inbox'[i] = inbox[i + 1]
           /\ Head(inbox) = inbox[1] /\ 1 \in DOMAIN inbox
<1>1. /\ IsList(inbox') /\ Len(inbox') = Len(inbox) - 1 /\ Head(inbox) = inbox[1] /\ 1 \in DOMAIN inbox
      /\ \A i \in DOMAIN inbox' : i + 1 \in DOMAIN inbox /\ inbox'[i] = inbox[i + 1]
    BY TailList
<1>2. Len(inbox) \in Nat /\ DOMAIN inbox' = 1..Len(inbox') /\ Len(inbox') \in Nat
    BY <1>1, AppendList
<1>3. \A i \in DOMAIN inbox' : i \in Nat \ {0}
    BY <1>2
<1> QED
    BY <1>1, <1>2, <1>3 DEF Asked

\* A start that is served runs what the panel showed: the revision that it names is the
\* one that was given, and a definition keeps it (prepare).
LEMMA BeginsAsMeant ==
    ASSUME CatalogInvariant, NEW m, Begins(m), Meant(m.operation, m.spec, pressed, seen)
    PROVE  Prepared(m.spec.id, m.spec.revision, m.spec.args).body = pressed[m.operation].body
<1>1. /\ Loaded[m.spec.id] # None /\ Loaded[m.spec.id].revision = m.spec.revision
      /\ Prepared(m.spec.id, m.spec.revision, m.spec.args) = Loaded[m.spec.id]
    BY DEF Begins, Prepared
<1>2. PICK d \in seen : d.id = m.spec.id /\ d.revision = m.spec.revision /\ d.body = pressed[m.operation].body
    BY DEF Meant
<1>3. d = Loaded[m.spec.id]
    BY <1>1, <1>2 DEF CatalogInvariant, Covers
<1> QED
    BY <1>1, <1>2, <1>3

\* What is served leaves the connection, and nothing else changes for the console.
LEMMA ServedLine ==
    ASSUME LineSound, inbox # <<>>, inbox' = Tail(inbox), Link \in Nat,
           UNCHANGED <<app, pressed, started>>, seen \subseteq seen'
    PROVE  LineSound'
<1>1. /\ IsList(inbox') /\ Len(inbox') = Len(inbox) - 1 /\ Len(inbox) \in Nat
      /\ \A i \in Asked' : i + 1 \in Asked /\ inbox'[i] = inbox[i + 1]
    BY AskedTail DEF LineSound
<1>2. Len(inbox') <= Link /\ AppShaped(app')
    BY <1>1 DEF LineSound
<1> QED
    BY <1>1, <1>2, LineTaken

LEMMA StartedLine ==
    ASSUME LineSound, inbox # <<>>, inbox' = Tail(inbox), Link \in Nat, Head(inbox).is = "start",
           NEW run, started' = Append(started, run), run.press = Head(inbox).operation,
           run.body = pressed[run.press].body, run.args = pressed[run.press].args,
           UNCHANGED <<app, pressed, seen>>
    PROVE  LineSound'
<1>1. /\ IsList(inbox') /\ Len(inbox') = Len(inbox) - 1 /\ Len(inbox) \in Nat
      /\ \A i \in Asked' : i \in Nat \ {0} /\ i + 1 \in Asked /\ inbox'[i] = inbox[i + 1]
      /\ Head(inbox) = inbox[1] /\ 1 \in Asked
    BY AskedTail DEF LineSound, Asked
<1>2. Len(inbox') <= Link /\ AppShaped(app') /\ IsList(pressed')
    BY <1>1 DEF LineSound
<1>3. /\ IsList(started') /\ DOMAIN started' = DOMAIN started \cup {Len(started) + 1}
      /\ started'[Len(started) + 1] = run /\ \A i \in DOMAIN started : started'[i] = started[i]
    BY AppendList DEF LineSound
<1> DEFINE last == Len(started) + 1
<1> HIDE DEF last
<1>4. run.press = inbox[1].operation /\ run.press \in DOMAIN pressed
    BY <1>1 DEF LineSound, AsksMeant, Meant
<1>5. AsksMeant'
    BY <1>1 DEF LineSound, AsksMeant
<1>6. PressesFit'
    BY DEF LineSound, PressesFit
<1>7. \A i \in DOMAIN started' : \/ i \in DOMAIN started /\ started'[i] = started[i]
                                 \/ i = last /\ started'[i] = run
    BY <1>3 DEF last
<1>8. StartedMeant'
    BY <1>4, <1>7 DEF LineSound, StartedMeant
<1>9. /\ \A i, j \in Asked : inbox[i].operation = inbox[j].operation => i = j
      /\ \A i, j \in DOMAIN started : started[i].press = started[j].press => i = j
      /\ \A i \in Asked, j \in DOMAIN started : inbox[i].operation # started[j].press
      /\ app.pending # None =>
          /\ \A i \in Asked : inbox[i].operation # app.pending.press
          /\ \A j \in DOMAIN started : started[j].press # app.pending.press
    BY DEF LineSound, Once
<1>10. Once'
    <2>1. ASSUME NEW i \in Asked', NEW j \in Asked', inbox'[i].operation = inbox'[j].operation
          PROVE  i = j
        <3>1. i + 1 \in Asked /\ j + 1 \in Asked /\ inbox[i + 1].operation = inbox[j + 1].operation
            BY <1>1, <2>1
        <3>2. i + 1 = j + 1
            BY <3>1, <1>9
        <3> QED
            BY <3>2, <1>1
    <2>2. \A i \in Asked' : inbox'[i].operation # run.press
        <3> SUFFICES ASSUME NEW i \in Asked', inbox'[i].operation = run.press PROVE FALSE
            OBVIOUS
        <3>1. i + 1 \in Asked /\ inbox[i + 1].operation = inbox[1].operation
            BY <1>1, <1>4
        <3>2. i + 1 = 1
            BY <3>1, <1>1, <1>9
        <3> QED
            BY <3>2, <1>1
    <2>3. \A i \in Asked', j \in DOMAIN started' : inbox'[i].operation # started'[j].press
        <3> TAKE i \in Asked', j \in DOMAIN started'
        <3>1. i + 1 \in Asked /\ inbox'[i] = inbox[i + 1]
            BY <1>1
        <3>2. j \in DOMAIN started => inbox'[i].operation # started[j].press
            BY <3>1, <1>9
        <3> QED
            BY <3>2, <2>2, <1>7
    <2>4. \A j \in DOMAIN started : started[j].press # run.press
        BY <1>1, <1>4, <1>9
    <2>5. \A i, j \in DOMAIN started' : started'[i].press = started'[j].press => i = j
        BY <2>4, <1>7, <1>9
    <2>6. app.pending # None => run.press # app.pending.press
        BY <1>1, <1>4, <1>9
    <2>7. app'.pending # None =>
             /\ \A i \in Asked' : inbox'[i].operation # app'.pending.press
             /\ \A j \in DOMAIN started' : started'[j].press # app'.pending.press
        BY <2>6, <1>1, <1>7, <1>9
    <2> QED
        BY <2>1, <2>3, <2>5, <2>7 DEF Once
<1> QED
    BY <1>1, <1>2, <1>3, <1>5, <1>6, <1>8, <1>10 DEF LineSound

LEMMA ServeStep ==
    ASSUME PanelAssumption, Invariant, Serve
    PROVE  [CatalogNext]_catalog /\ PanelSound(panel, seen)' /\ TaskSound' /\ LineSound'
<1> DEFINE m == Head(inbox)
<1>1. /\ CatalogInvariant /\ PanelSound(panel, seen) /\ TaskSound /\ LineSound /\ Link \in Nat
      /\ inbox # <<>> /\ inbox' = Tail(inbox)
    BY DEF Invariant, Serve, PanelAssumption
<1>2. UNCHANGED <<panel, contexts, commands, replies, app, pressed>>
    BY DEF Serve, AtDaemon, panels
<1>3. [CatalogNext]_catalog /\ UNCHANGED seen
    BY DEF Serve, ServeAcquire, RefuseAcquire, ServeRelease, ServeStart, ServeAsk, ServeCommand,
        CatalogNext, Look, catalog
<1>4. PanelSound(panel, seen)' /\ TaskSound'
    BY <1>1, <1>2, <1>3, TaskUnchanged
<1>5. CASE UNCHANGED started
    BY <1>1, <1>2, <1>3, <1>4, <1>5, ServedLine
<1>6. CASE m.is = "start" /\ ServeStart(m) /\ Begins(m)
    <2> DEFINE definition == Prepared(m.spec.id, m.spec.revision, m.spec.args)
               run == [press |-> m.operation, body |-> definition.body, args |-> m.spec.args]
    <2>1. started' = Append(started, run)
        BY <1>6 DEF ServeStart
    <2>2. 1 \in Asked /\ m = inbox[1]
        BY <1>1, <1>6, AskedTail DEF LineSound, Asked
    <2>3. Meant(m.operation, m.spec, pressed, seen)
        BY <2>2, <1>1 DEF LineSound, AsksMeant
    <2>4. definition.body = pressed[m.operation].body
        BY <2>3, <1>1, <1>6, BeginsAsMeant
    <2>5. run.press = m.operation /\ run.body = definition.body /\ run.args = m.spec.args
        OBVIOUS
    <2>6. m.spec.args = pressed[m.operation].args
        BY <2>3 DEF Meant
    <2> HIDE DEF run, definition
    <2>7. LineSound'
        BY <2>1, <2>4, <2>5, <2>6, <1>1, <1>2, <1>3, <1>6, StartedLine
    <2> QED
        BY <2>7, <1>3, <1>4
<1>7. UNCHANGED started \/ (m.is = "start" /\ ServeStart(m) /\ Begins(m))
    BY DEF Serve, ServeAcquire, RefuseAcquire, ServeRelease, ServeStart, ServeAsk, ServeCommand
<1> QED
    BY <1>5, <1>6, <1>7

\* The rest of what the daemon and the connection do.
LEMMA DaemonStep ==
    ASSUME PanelAssumption, Invariant,
           \/ GrantQueued \/ JobEnds \/ TakeOver \/ GiveBack \/ NewSession \/ OtherSaves
           \/ Disconnect \/ Reconnect
    PROVE  [CatalogNext]_catalog /\ PanelSound(panel, seen)' /\ TaskSound' /\ LineSound'
<1>1. CatalogInvariant /\ PanelSound(panel, seen) /\ TaskSound /\ LineSound
    BY DEF Invariant
<1>2. UNCHANGED <<contexts, commands, replies, pressed, started>>
    BY DEF GrantQueued, JobEnds, TakeOver, GiveBack, NewSession, OtherSaves, Disconnect, Reconnect,
        AtDaemon, panels, daemon
<1>3. [CatalogNext]_catalog
    <2>1. CASE OtherSaves
        <3>1. PICK id \in Ids, body \in Others :
                Save([id |-> id, body |-> body, expected |-> IF Loaded[id] = None THEN None ELSE Loaded[id].revision])
            BY <2>1 DEF OtherSaves
        <3>2. Loaded \in [Ids -> Definition \cup {None}]
            BY <1>1 DEF CatalogInvariant, CatalogTypeOK, Loaded, Catalogs
        <3> DEFINE expected == IF Loaded[id] = None THEN None ELSE Loaded[id].revision
        <3>3. expected \in 1..MaxRevision \cup {None}
            <4>1. Loaded[id] # None => Loaded[id].revision \in 1..MaxRevision
                BY <3>2 DEF Definition
            <4> QED
                BY <4>1
        <3> HIDE DEF expected
        <3>4. [id |-> id, body |-> body, expected |-> expected] \in Request
            BY <3>3 DEF Request, PanelAssumption
        <3>5. Save([id |-> id, body |-> body, expected |-> expected])
            BY <3>1 DEF expected
        <3> QED
            BY <3>4, <3>5 DEF CatalogNext
    <2>2. CASE ~OtherSaves
        BY <2>2 DEF GrantQueued, JobEnds, TakeOver, GiveBack, NewSession, Disconnect, Reconnect, CatalogNext
    <2> QED
        BY <2>1, <2>2
<1>4. seen \subseteq seen'
    BY <1>3, CatalogGrows
<1>5. TaskSound'
    BY <1>1, <1>2, <1>4, TaskUnchanged
<1>6. PanelSound(panel, seen)'
    <2>1. UNCHANGED panel \/ panel' = [panel EXCEPT !.busy = FALSE]
        BY DEF GrantQueued, JobEnds, TakeOver, GiveBack, NewSession, OtherSaves, Disconnect, Reconnect,
            AtDaemon, panels
    <2>2. PanelSound(panel', seen)
        BY <2>1, <1>1, BusySound
    <2> QED
        BY <2>2, <1>4, PanelSoundMore
<1>7. CASE Disconnect
    <2>1. inbox' = <<>> /\ app' = Lost(app)
        BY <1>7 DEF Disconnect
    <2>2. IsList(inbox') /\ Len(inbox') <= Link /\ Asked' = {}
        BY <2>1, ShortList DEF Asked, PanelAssumption
    <2>3. AppShaped(app') /\ app'.pending = None
        BY <2>1, <1>1 DEF LineSound, AppShaped, Lost
    <2>4. 0 \in Nat
        OBVIOUS
    <2>5. LineSound'
        BY <2>2, <2>3, <2>4, <1>1, <1>2, <1>4, LineTaken
    <2> QED
        BY <2>5, <1>3, <1>5, <1>6
<1>8. CASE Reconnect
    <2>1. inbox' = inbox /\ app' = [app EXCEPT !.view = control]
        BY <1>8 DEF Reconnect
    <2>2. AppShaped(app') /\ app'.pending = app.pending
        BY <2>1, <1>1, ShapeKept DEF LineSound
    <2>3. \A i \in Asked' : i + 0 \in Asked /\ inbox'[i] = inbox[i + 0]
        <3>1. \A i \in DOMAIN inbox : i \in Nat
            BY <1>1, AppendList DEF LineSound
        <3> QED
            BY <3>1, <2>1 DEF Asked
    <2>4. IsList(inbox') /\ Len(inbox') <= Link /\ 0 \in Nat
        BY <2>1, <1>1 DEF LineSound
    <2>5. LineSound'
        BY <2>2, <2>3, <2>4, <1>1, <1>2, <1>4, LineTaken
    <2> QED
        BY <2>5, <1>3, <1>5, <1>6
<1>9. CASE UNCHANGED <<app, inbox>>
    <2>1. LineSound'
        BY <1>1, <1>2, <1>4, <1>9, LineUnchanged
    <2> QED
        BY <2>1, <1>3, <1>5, <1>6
<1>10. Disconnect \/ Reconnect \/ UNCHANGED <<app, inbox>>
    BY DEF GrantQueued, JobEnds, TakeOver, GiveBack, NewSession, OtherSaves, AtDaemon
<1> QED
    BY <1>7, <1>8, <1>9, <1>10

-----------------------------------------------------------------------------
(* What the daemon sends *)

LEMMA SendsSound ==
    ASSUME OutboxSound, NEW messages, Sends(messages), IsList(messages),
           \A i \in DOMAIN messages : messages[i].is \in Kinds
    PROVE  OutboxSound'
<1>1. /\ IsList(outbox \o messages)
      /\ \A i \in DOMAIN (outbox \o messages) :
            \/ i \in DOMAIN outbox /\ (outbox \o messages)[i] = outbox[i]
            \/ i \notin DOMAIN outbox /\ i - Len(outbox) \in DOMAIN messages
               /\ (outbox \o messages)[i] = messages[i - Len(outbox)]
    BY ConcatList DEF OutboxSound
<1>2. outbox' = outbox \/ outbox' = outbox \o messages
    BY DEF Sends
<1> QED
    BY <1>1, <1>2 DEF OutboxSound, IsList

LEMMA SendsOne ==
    ASSUME OutboxSound, NEW m, Sends(<<m>>), m.is \in Kinds
    PROVE  OutboxSound'
<1> QED
    BY ShortList, SendsSound

\* A message, and one after it at most.
LEMMA SendsMore ==
    ASSUME OutboxSound, NEW m, NEW rest, Sends(<<m>> \o rest), m.is \in Kinds,
           IsList(rest), \A i \in DOMAIN rest : rest[i].is \in Kinds
    PROVE  OutboxSound'
<1>1. /\ IsList(<<m>> \o rest)
      /\ \A i \in DOMAIN (<<m>> \o rest) :
            \/ i \in DOMAIN <<m>> /\ (<<m>> \o rest)[i] = <<m>>[i]
            \/ i \notin DOMAIN <<m>> /\ i - Len(<<m>>) \in DOMAIN rest
               /\ (<<m>> \o rest)[i] = rest[i - Len(<<m>>)]
    BY ConcatList, ShortList
<1>2. \A i \in DOMAIN (<<m>> \o rest) : (<<m>> \o rest)[i].is \in Kinds
    BY <1>1, ShortList
<1> QED
    BY <1>1, <1>2, SendsSound

LEMMA OutboxUnchanged ==
    ASSUME OutboxSound, UNCHANGED outbox
    PROVE  OutboxSound'
<1> QED
    BY DEF OutboxSound, IsList

LEMMA EventList ==
    /\ \A e : Event(e).is \in Kinds /\ IsList(<<Event(e)>>)
    /\ \A e : \A i \in DOMAIN <<Event(e)>> : <<Event(e)>>[i].is \in Kinds
    /\ \A v : ControlEvent(v).is \in Kinds
    /\ IsList(<<>>) /\ \A i \in DOMAIN <<>> : <<>>[i].is \in Kinds
<1>1. \A e : Event(e).is \in Kinds
    BY DEF Event, Kinds
<1>2. \A v : ControlEvent(v).is \in Kinds
    BY DEF ControlEvent, Kinds
<1> QED
    BY <1>1, <1>2, ShortList

LEMMA ServeSends ==
    ASSUME OutboxSound, Serve
    PROVE  OutboxSound'
<1> DEFINE m == Head(inbox)
<1>1. CASE ServeAcquire(m)
    <2>1. CASE Grants(m.press)
        <3>1. Sends(<<[is |-> "granted", press |-> m.press, view |-> control']>>)
            BY <2>1 DEF Grants
        <3> QED
            BY <3>1, SendsOne DEF Kinds
    <2>2. CASE UNCHANGED outbox
        BY <2>2, OutboxUnchanged
    <2> QED
        BY <1>1, <2>1, <2>2 DEF ServeAcquire
<1>2. CASE RefuseAcquire(m)
    <2>1. Sends(<<[is |-> "refused", press |-> m.press]>>)
        BY <1>2 DEF RefuseAcquire
    <2> QED
        BY <2>1, SendsOne DEF Kinds
<1>3. CASE ServeRelease(m)
    <2>1. Sends(<<ControlEvent(control')>>)
        BY <1>3 DEF ServeRelease
    <2> QED
        BY <2>1, SendsOne, EventList
<1>4. CASE ServeStart(m)
    <2>1. \/ \E request, execution : Sends(<<[is |-> "result", request |-> request, execution |-> execution]>>)
          \/ \E request : Sends(<<[is |-> "error", request |-> request, missing |-> FALSE]>>)
        BY <1>4 DEF ServeStart
    <2> QED
        BY <2>1, SendsOne DEF Kinds
<1>5. CASE ServeAsk(m)
    <2>1. \/ Sends(<<[is |-> "result", request |-> m.request, execution |-> job']>>)
          \/ Sends(<<[is |-> "error", request |-> m.request, missing |-> TRUE]>>)
        BY <1>5 DEF ServeAsk
    <2> QED
        BY <2>1, SendsOne DEF Kinds
<1>6. CASE ServeCommand
    <2>1. Sends(<<Event(job')>>) \/ Sends(<<>>)
        BY <1>6 DEF ServeCommand
    <2> QED
        BY <2>1, EventList, SendsSound
<1> QED
    BY <1>1, <1>2, <1>3, <1>4, <1>5, <1>6 DEF Serve

LEMMA OutboxStep ==
    ASSUME OutboxSound, [Next]_vars
    PROVE  OutboxSound'
<1>1. CASE Task \/ TaskFails \/ Reply \/ PanelKeys \/ Press \/ Stop \/ Poll \/ Type \/ OtherSaves \/ Reconnect
           \/ UNCHANGED vars
    <2>1. UNCHANGED outbox
        BY <1>1 DEF Task, TaskFails, Reply, PanelKeys, Open, Close, Move, Refresh, OpenEditor, Edit,
            LeaveEditor, SaveDraft, OpenForm, LeaveForm, FillTimeout, FillField, Press, Stop, Poll, Type,
            OtherSaves, Reconnect, Keyed, network, vars
    <2> QED
        BY <2>1, OutboxUnchanged
<1>2. CASE Receive
    <2>1. outbox # <<>> /\ outbox' = Tail(outbox) /\ IsList(outbox)
        BY <1>2 DEF Receive, OutboxSound
    <2>2. /\ IsList(outbox')
          /\ \A i \in DOMAIN outbox' : i + 1 \in DOMAIN outbox /\ outbox'[i] = outbox[i + 1]
        BY <2>1, TailList
    <2> QED
        BY <2>2 DEF OutboxSound
<1>3. CASE Serve
    BY <1>3, ServeSends
<1>4. CASE GrantQueued
    <2>1. Sends(<<[is |-> "granted", press |-> waiting, view |-> control']>>)
        BY <1>4 DEF GrantQueued, Grants
    <2> QED
        BY <2>1, SendsOne DEF Kinds
<1>5. CASE JobEnds
    <2>1. Sends(<<Event(job')>>)
        BY <1>5 DEF JobEnds
    <2> QED
        BY <2>1, SendsOne, EventList
<1> DEFINE rest == IF Running(job) THEN <<Event(job')>> ELSE <<>>
<1>6. IsList(rest) /\ \A i \in DOMAIN rest : rest[i].is \in Kinds
    BY EventList
<1>7. CASE TakeOver
    <2>1. Sends(<<ControlEvent(control')>> \o rest)
        BY <1>7 DEF TakeOver
    <2> HIDE DEF rest
    <2> QED
        BY <2>1, <1>6, SendsMore, EventList
<1>8. CASE GiveBack
    <2>1. Sends(<<ControlEvent(None)>>)
        BY <1>8 DEF GiveBack
    <2> QED
        BY <2>1, SendsOne, EventList
<1>9. CASE NewSession
    <2> DEFINE m == [is |-> "session"]
    <2>1. Sends(<<m>> \o rest)
        BY <1>9 DEF NewSession
    <2>2. m.is \in Kinds
        BY DEF Kinds
    <2> HIDE DEF rest, m
    <2> QED
        BY <2>1, <2>2, <1>6, SendsMore
<1>10. CASE Disconnect
    <2>1. outbox' = <<>>
        BY <1>10 DEF Disconnect
    <2> QED
        BY <2>1, ShortList DEF OutboxSound
<1> QED
    BY <1>1, <1>2, <1>3, <1>4, <1>5, <1>7, <1>8, <1>9, <1>10 DEF Next, PanelKeys

-----------------------------------------------------------------------------
(* The theorems *)

LEMMA InvariantInit ==
    ASSUME PanelAssumption, Init
    PROVE  Invariant
<1>1. CatalogInvariant /\ seen = {}
    BY CatalogInvariantInit DEF Init, CatalogInit
<1>2. PanelSound(panel, seen)
    <2>1. panel = NewPanel
        BY DEF Init
    <2>2. NewPanel \in Panel
        BY DEF NewPanel, Panel
    <2> QED
        BY <2>1, <2>2 DEF PanelSound, NewPanel
<1>3. TaskSound
    BY ShortList DEF Init, TaskSound
<1>4. LineSound
    <2>1. AppShaped(app) /\ app.pending = None
        BY DEF Init, AppShaped
    <2>2. Asked = {} /\ IsList(inbox) /\ Len(inbox) <= Link
        BY ShortList DEF Init, Asked, PanelAssumption
    <2>3. IsList(pressed) /\ IsList(started) /\ DOMAIN pressed = {} /\ DOMAIN started = {}
        BY ShortList DEF Init
    <2> QED
        BY <2>1, <2>2, <2>3 DEF LineSound, AsksMeant, PressesFit, StartedMeant, Once
<1>5. OutboxSound
    BY ShortList DEF Init, OutboxSound
<1> QED
    BY <1>1, <1>2, <1>3, <1>4, <1>5 DEF Invariant

LEMMA InvariantStep ==
    ASSUME PanelAssumption, Invariant, [Next]_vars
    PROVE  Invariant'
<1>1. CatalogInvariant /\ PanelSound(panel, seen) /\ TaskSound /\ LineSound /\ OutboxSound
    BY DEF Invariant
<1>2. OutboxSound'
    BY <1>1, OutboxStep
<1>3. ASSUME [CatalogNext]_catalog /\ PanelSound(panel, seen)' /\ TaskSound' /\ LineSound'
      PROVE  Invariant'
    BY <1>1, <1>2, <1>3, CatalogInvariantStep DEF Invariant
<1>4. CASE Task \/ TaskFails
    BY <1>3, <1>4, TaskStep
<1>5. CASE Reply
    BY <1>3, <1>5, ReplyStep
<1>6. CASE PanelKeys
    BY <1>3, <1>6, PanelKeysStep
<1>7. CASE Press
    BY <1>3, <1>7, PressStep
<1>8. CASE Stop \/ Poll \/ Type \/ Receive
    BY <1>3, <1>8, ConsoleStep
<1>9. CASE Serve
    BY <1>3, <1>9, ServeStep
<1>10. CASE \/ GrantQueued \/ JobEnds \/ TakeOver \/ GiveBack \/ NewSession \/ OtherSaves
            \/ Disconnect \/ Reconnect
    BY <1>3, <1>10, DaemonStep
<1>11. CASE UNCHANGED vars
    <2>1. UNCHANGED <<catalog, seen, panel, contexts, commands, replies, app, inbox, pressed, started>>
        BY <1>11 DEF vars, catalog, panels, network, daemon
    <2>2. PanelSound(panel, seen)' /\ TaskSound'
        BY <2>1, <1>1, TaskUnchanged
    <2>3. LineSound'
        BY <2>1, <1>1, LineUnchanged
    <2> QED
        BY <2>1, <2>2, <2>3, <1>3
<1> QED
    BY <1>4, <1>5, <1>6, <1>7, <1>8, <1>9, <1>10, <1>11 DEF Next, PanelKeys

\* What the panel shows was handed out by the daemon, the forms are those of the Macros and
\* revisions that they were opened for, and what is asked, awaited or run for a press is
\* what the panel showed at it, in one place (run_selected, start_human_macro and prepare).
THEOREM PanelInvariant ==
    ASSUME PanelAssumption
    PROVE  Spec => []Invariant
<1>1. Init => Invariant
    BY InvariantInit
<1>2. Invariant /\ [Next]_vars => Invariant'
    BY InvariantStep
<1> QED
    BY <1>1, <1>2, PTL DEF Spec

\* The types of the panel and the catalog, with one context for each question under way
\* (handle_macro_action, macro_io_contexts).
THEOREM PanelTypes ==
    ASSUME PanelAssumption
    PROVE  Spec => []TypeOK
<1>1. Invariant => TypeOK
    BY DEF Invariant, CatalogInvariant, TaskSound, LineSound, PanelSound, Panel, TypeOK
<1> QED
    BY <1>1, PanelInvariant, PTL

\* A revision of a Macro names one definition for ever, whatever saves fail half way and
\* whenever the daemon is started again (save, load).
THEOREM OneDefinitionForever ==
    ASSUME PanelAssumption
    PROVE  Spec => []RevisionNamesOne
<1>1. Invariant => RevisionNamesOne
    BY DEF Invariant, CatalogInvariant
<1> QED
    BY <1>1, PanelInvariant, PTL

\* What the daemon runs for a press of Ctrl-R is what the panel showed at it, with values
\* that fit, and once at most (run_selected, start_human_macro and prepare).
THEOREM AlwaysRunsAsShown ==
    ASSUME PanelAssumption
    PROVE  Spec => []RunsAsShown
<1>1. ASSUME Invariant PROVE RunsAsShown
    <2>1. PressesFit /\ StartedMeant /\ Once
        BY <1>1 DEF Invariant, LineSound
    <2>2. \A i \in DOMAIN started :
             TypedArgs(pressed[started[i].press].body, pressed[started[i].press].args)
        BY <2>1 DEF PressesFit, StartedMeant
    <2>3. \A i \in DOMAIN started : TypedArgs(started[i].body, started[i].args)
        BY <2>1, <2>2 DEF StartedMeant
    <2> QED
        BY <2>1, <2>3 DEF StartedMeant, Once, RunsAsShown
<1> QED
    BY <1>1, PanelInvariant, PTL
=============================================================================
