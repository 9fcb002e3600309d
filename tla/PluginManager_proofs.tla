------------------------ MODULE PluginManager_proofs ------------------------
(* Proofs about PluginManager and the ToolManager it fills, for any files,    *)
(* libraries, names and callers.                                              *)
EXTENDS PluginManager, SequenceTheorems, FiniteSetTheorems, TLAPS

Loaded(p) == \E i \in DOMAIN plugins: plugins[i].path = p

\* Which parts of the job are there in each phase.
JobShape ==
  /\ job.phase \in Validating => job.todo # <<>>
  /\ job.phase \in {"unload", "unregister"} =>
       job.todo = <<>> /\ job.victims # <<>>
  /\ job.phase \in Loading =>
       job.todo = <<>> /\ job.victims = <<>> /\ job.entries # <<>>
  /\ job.phase \notin {"unregister", "register", "failed"} => job.names = <<>>
  /\ MutexFree => job.victims = <<>>
  /\ life = "gone" => MutexFree

PathsOnce ==
  \A i, j \in DOMAIN plugins: plugins[i].path = plugins[j].path => i = j

\* No path is in plugins_ twice; what is to be unloaded is there, and what is
\* being loaded is not.
ListedOnce ==
  /\ PathsOnce
  /\ \A i \in DOMAIN job.victims: Loaded(job.victims[i])
  /\ \A i, j \in DOMAIN job.victims: job.victims[i] = job.victims[j] => i = j
  /\ job.phase \in Loading \ {"load"} => ~Loaded(Entry)

\* The handles on a library: one for plugins_, one for the step under way.
HandlesOf(p) == IF p \in DOMAIN image THEN image[p].handles ELSE 0
Due(p) == (IF Loaded(p) THEN 1 ELSE 0) + (IF HandedOut(p) THEN 1 ELSE 0)
EachHandleDue == \A p \in Files: HandlesOf(p) = Due(p)

\* A plugin does not register more tools than its library has.
NotTooMany ==
  job.phase = "register" => Len(job.names) <= Len(image[Entry].lib.tools)

BaseInv == TypeOK /\ JobShape /\ ListedOnce /\ EachHandleDue /\ NotTooMany

\* The names that plugins recorded are not the server's.
RecordedAreOthers ==
  life # "gone" =>
    /\ Range(job.names) \cap Builtins = {}
    /\ \A i \in DOMAIN plugins: Range(plugins[i].names) \cap Builtins = {}

BuiltinsInv == BuiltinsStay /\ RecordedAreOthers

\* Libraries of one tool: one name at most to remember, and none when a load
\* has failed.
OneName ==
  /\ Len(job.names) <= 1
  /\ \A i \in DOMAIN plugins: Len(plugins[i].names) <= 1
  /\ job.phase = "failed" => job.names = <<>>

\* The tools a plugin has at this moment: those it recorded, but for the ones
\* an unload has taken away, and those of the load under way.
Serves(p, n) ==
  IF \/ job.phase = "unregister" /\ p = Victim
     \/ job.phase = "register" /\ p = Entry
  THEN n \in Range(job.names)
  ELSE Loaded(p) /\ n \in Range(ToolsOf(p))

ToolsAreServed ==
  \A p \in Files, n \in Names: n \in DOMAIN tools /\ tools[n] = p <=> Serves(p, n)

\* A call that has not lost the code it runs runs that of a loaded plugin, or
\* of one that is about to be.
CallsKeepCode ==
  \A c \in DOMAIN calls:
    \/ "code" \in calls[c].lost
    \/ calls[c].owner = Server
    \/ Loaded(calls[c].owner)
    \/ job.phase = "register" /\ calls[c].owner = Entry /\ job.names # <<>>

ServeInv == OneName /\ ToolsAreServed /\ CallsKeepCode

------------------------------------------------------------------------------
(* The types, and what the operators do to them.                              *)

JobType ==
  [phase: Phases, todo: Seq(Files), victims: Seq(Files), entries: Seq(Files),
   names: Seq(Names)]
LibraryType == [fails: Stages, tools: Seq(Names), stops: BOOLEAN]
ImageType == [lib: Libraries, handles: Nat \ {0}, live: BOOLEAN]
ImageOK(img) == DOMAIN img \subseteq Files /\ \A p \in DOMAIN img: img[p] \in ImageType
CallsOK(cs) == DOMAIN cs \subseteq Callers /\ \A c \in DOMAIN cs: cs[c] \in Call

LEMMA WithDef ==
  ASSUME NEW f, NEW x, NEW v
  PROVE  /\ DOMAIN With(f, x, v) = DOMAIN f \cup {x}
         /\ With(f, x, v)[x] = v
         /\ \A y \in DOMAIN f: y # x => With(f, x, v)[y] = f[y]
  BY DEF With

LEMMA RestrictDef ==
  ASSUME NEW f, NEW S
  PROVE  /\ DOMAIN Restrict(f, S) = S
         /\ \A y \in S: Restrict(f, S)[y] = f[y]
  BY DEF Restrict

LEMMA HeadTail ==
  ASSUME NEW S, NEW s \in Seq(S), s # <<>>
  PROVE  /\ Head(s) \in S /\ Tail(s) \in Seq(S)
         /\ 1 \in DOMAIN s /\ Head(s) = s[1]
         /\ \A i \in DOMAIN Tail(s): i + 1 \in DOMAIN s /\ Tail(s)[i] = s[i + 1]
  OBVIOUS

LEMMA RemainingDef ==
  ASSUME NEW todo \in Seq(Files), NEW victims \in Seq(Files),
         NEW entries \in Seq(Files), NEW r, r = Remaining(todo, victims, entries)
  PROVE  /\ r \in JobType
         /\ r.todo = todo /\ r.victims = victims /\ r.entries = entries
         /\ r.names = <<>>
         /\ r.phase \in {"validate", "unload", "load", "idle"}
         /\ r.phase = "validate" <=> todo # <<>>
         /\ r.phase = "unload" <=> todo = <<>> /\ victims # <<>>
         /\ r.phase = "load" <=> todo = <<>> /\ victims = <<>> /\ entries # <<>>
<1> DEFINE phase == CASE todo # <<>> -> "validate"
                      [] todo = <<>> /\ victims # <<>> -> "unload"
                      [] todo = <<>> /\ victims = <<>> /\ entries # <<>> -> "load"
                      [] OTHER -> "idle"
<1>1. r = [phase |-> phase, todo |-> todo, victims |-> victims,
           entries |-> entries, names |-> <<>>]
  BY DEF Remaining, Job
<1>2. /\ phase \in {"validate", "unload", "load", "idle"}
      /\ phase = "validate" <=> todo # <<>>
      /\ phase = "unload" <=> todo = <<>> /\ victims # <<>>
      /\ phase = "load" <=> todo = <<>> /\ victims = <<>> /\ entries # <<>>
  OBVIOUS
<1>3. <<>> \in Seq(Names) /\ {"validate", "unload", "load", "idle"} \subseteq Phases
  BY DEF Phases, Validating, Loading
<1> HIDE DEF phase
<1>4. QED
  BY <1>1, <1>2, <1>3 DEF JobType

LEMMA Types ==
  ASSUME TypeOK
  PROVE  /\ ImageOK(image) /\ CallsOK(calls) /\ job \in JobType
         /\ DOMAIN tools \subseteq Names /\ \A n \in DOMAIN tools: tools[n] \in Owners
         /\ plugins \in Seq([path: Files, names: Seq(Names)])
  BY DEF TypeOK, ToolManagerTypeOK, ImageOK, ImageType, CallsOK, JobType

LEMMA LosingDef ==
  ASSUME CallsOK(calls), NEW parts \in SUBSET Parts, NEW hit
  PROVE  /\ CallsOK(Losing(parts, hit))
         /\ DOMAIN Losing(parts, hit) = DOMAIN calls
         /\ \A c \in DOMAIN calls:
              /\ Losing(parts, hit)[c].name = calls[c].name
              /\ Losing(parts, hit)[c].owner = calls[c].owner
              /\ Losing(parts, hit)[c].lost =
                   IF c \in hit THEN calls[c].lost \cup parts ELSE calls[c].lost
<1>1. ASSUME NEW c \in DOMAIN calls
      PROVE  /\ Losing(parts, hit)[c] \in Call
             /\ Losing(parts, hit)[c].name = calls[c].name
             /\ Losing(parts, hit)[c].owner = calls[c].owner
             /\ Losing(parts, hit)[c].lost =
                  IF c \in hit THEN calls[c].lost \cup parts ELSE calls[c].lost
  <2>1. calls[c] \in Call
    BY DEF CallsOK
  <2>2. Losing(parts, hit)[c] =
          IF c \in hit THEN [calls[c] EXCEPT !.lost = @ \cup parts] ELSE calls[c]
    BY DEF Losing
  <2>3. QED
    BY <2>1, <2>2 DEF Call
<1>2. DOMAIN Losing(parts, hit) = DOMAIN calls
  BY DEF Losing
<1>3. QED
  BY <1>1, <1>2 DEF CallsOK

\* What is taken from the calls of a library.
LEMMA TakenDef ==
  ASSUME CallsOK(calls), NEW p, NEW parts \in SUBSET Parts
  PROVE  /\ CallsOK(Taken(p, parts)) /\ DOMAIN Taken(p, parts) = DOMAIN calls
         /\ \A c \in DOMAIN calls:
              /\ Taken(p, parts)[c].owner = calls[c].owner
              /\ Taken(p, parts)[c].lost =
                   IF calls[c].owner = p THEN calls[c].lost \cup parts
                                         ELSE calls[c].lost
<1> DEFINE hit == {c \in DOMAIN calls: calls[c].owner = p}
<1>1. Taken(p, parts) = Losing(parts, hit)
  BY DEF Taken
<1>2. \A c \in DOMAIN calls: c \in hit <=> calls[c].owner = p
  OBVIOUS
<1> HIDE DEF hit
<1>3. /\ CallsOK(Losing(parts, hit))
      /\ DOMAIN Losing(parts, hit) = DOMAIN calls
      /\ \A c \in DOMAIN calls:
           /\ Losing(parts, hit)[c].owner = calls[c].owner
           /\ Losing(parts, hit)[c].lost =
                IF c \in hit THEN calls[c].lost \cup parts ELSE calls[c].lost
  BY LosingDef
<1>4. QED
  BY <1>1, <1>2, <1>3

------------------------------------------------------------------------------
(* The C library: what its calls do to the handles and the contents.          *)

\* The same libraries are mapped, as often, with the same contents.
SameImages ==
  /\ DOMAIN image' = DOMAIN image
  /\ \A p \in DOMAIN image: image'[p].handles = image[p].handles /\ image'[p].lib = image[p].lib

LEMMA SameHandles ==
  ASSUME SameImages
  PROVE  \A p \in Files: HandlesOf(p)' = HandlesOf(p)
  BY DEF SameImages, HandlesOf

LEMMA OpenDef ==
  ASSUME TypeOK, NEW p \in Files, CanOpen(p), DlOpen(p)
  PROVE  /\ ImageOK(image') /\ p \in DOMAIN image'
         /\ HandlesOf(p)' = HandlesOf(p) + 1
         /\ \A q \in Files \ {p}: HandlesOf(q)' = HandlesOf(q)
         /\ p \notin DOMAIN image => image'[p].lib = disk[p] /\ p \in DOMAIN disk
         /\ p \in DOMAIN image => image'[p].lib = image[p].lib
<1>1. ImageOK(image)
  BY Types
<1>2. CASE p \in DOMAIN image
  <2>1. image' = [image EXCEPT ![p].handles = @ + 1]
    BY <1>2 DEF DlOpen
  <2>2. /\ DOMAIN image' = DOMAIN image
        /\ image'[p] = [image[p] EXCEPT !.handles = @ + 1]
        /\ \A q \in DOMAIN image \ {p}: image'[q] = image[q]
    BY <1>2, <2>1
  <2>3. image[p] \in ImageType
    BY <1>1, <1>2 DEF ImageOK
  <2>4. /\ image'[p] \in ImageType /\ image'[p].lib = image[p].lib
        /\ image'[p].handles = image[p].handles + 1
    BY <2>2, <2>3 DEF ImageType
  <2>5. ImageOK(image')
    BY <1>1, <2>2, <2>4 DEF ImageOK
  <2>6. QED
    BY <1>2, <2>2, <2>4, <2>5 DEF HandlesOf
<1>3. CASE p \notin DOMAIN image
  <2>1. p \in DOMAIN disk /\ disk[p] \in Libraries
    BY <1>3 DEF CanOpen, TypeOK
  <2>2. PICK new \in ImageType : new = [lib |-> disk[p], handles |-> 1, live |-> FALSE]
    <3>1. [lib |-> disk[p], handles |-> 1, live |-> FALSE] \in ImageType
      BY <2>1 DEF ImageType
    <3>2. QED
      BY <3>1
  <2>3. image' = With(image, p, new)
    BY <1>3, <2>2 DEF DlOpen
  <2>4. /\ DOMAIN image' = DOMAIN image \cup {p} /\ image'[p] = new
        /\ \A q \in DOMAIN image: q # p => image'[q] = image[q]
    BY <2>3 DEF With
  <2>5. ImageOK(image')
    BY <1>1, <2>4 DEF ImageOK
  <2>6. QED
    BY <1>3, <2>1, <2>2, <2>4, <2>5 DEF HandlesOf
<1>4. QED
  BY <1>2, <1>3

LEMMA StoppedDef ==
  ASSUME ImageOK(image), NEW p \in DOMAIN image
  PROVE  /\ ImageOK(Stopped(p)) /\ DOMAIN Stopped(p) = DOMAIN image
         /\ \A q \in DOMAIN image: /\ Stopped(p)[q].handles = image[q].handles
                                   /\ Stopped(p)[q].lib = image[q].lib
<1>1. /\ DOMAIN Stopped(p) = DOMAIN image
      /\ Stopped(p)[p] = [image[p] EXCEPT !.live = @ /\ ~image[p].lib.stops]
      /\ \A q \in DOMAIN image \ {p}: Stopped(p)[q] = image[q]
  BY DEF Stopped
<1>2. image[p] \in ImageType
  BY DEF ImageOK
<1>3. (image[p].live /\ ~image[p].lib.stops) \in BOOLEAN
  OBVIOUS
<1>4. /\ Stopped(p)[p] \in ImageType /\ Stopped(p)[p].handles = image[p].handles
      /\ Stopped(p)[p].lib = image[p].lib
  BY <1>1, <1>2, <1>3 DEF ImageType
<1>5. QED
  BY <1>1, <1>4 DEF ImageOK

\* Also when the register that replaced the state has failed.
LEMMA RenewedDef ==
  ASSUME TypeOK, NEW p \in DOMAIN image, Renewed(p) \/ RenewedAndShutdown(p)
  PROVE  /\ ImageOK(image') /\ SameImages /\ CallsOK(calls')
         /\ DOMAIN calls' = DOMAIN calls
         /\ \A c \in DOMAIN calls:
              /\ calls'[c].owner = calls[c].owner
              /\ calls'[c].lost \cap {"tool", "code"} = calls[c].lost \cap {"tool", "code"}
<1>1. ImageOK(image) /\ CallsOK(calls) /\ image[p] \in ImageType
  BY Types DEF ImageOK
<1>2. PICK l \in BOOLEAN: image' = [image EXCEPT ![p].live = l] /\ calls' = Taken(p, State(p))
  <2>1. (~image[p].lib.stops) \in BOOLEAN
    OBVIOUS
  <2>2. QED
    BY <2>1 DEF Renewed, RenewedAndShutdown
<1>3. /\ DOMAIN image' = DOMAIN image
      /\ image'[p] = [image[p] EXCEPT !.live = l]
      /\ \A q \in DOMAIN image \ {p}: image'[q] = image[q]
  BY <1>2
<1>4. /\ image'[p] \in ImageType /\ image'[p].handles = image[p].handles
      /\ image'[p].lib = image[p].lib
  BY <1>1, <1>3 DEF ImageType
<1>5. State(p) \in SUBSET Parts /\ State(p) \subseteq {"state"}
  BY DEF State, Parts
<1>6. /\ CallsOK(calls') /\ DOMAIN calls' = DOMAIN calls
      /\ \A c \in DOMAIN calls:
           /\ calls'[c].owner = calls[c].owner
           /\ calls'[c].lost = IF calls[c].owner = p THEN calls[c].lost \cup State(p)
                                                     ELSE calls[c].lost
  BY <1>1, <1>2, <1>5, TakenDef
<1>7. QED
  BY <1>1, <1>3, <1>4, <1>5, <1>6 DEF ImageOK, SameImages

LEMMA ShutdownDef ==
  ASSUME TypeOK, NEW p \in DOMAIN image, Shutdown(p)
  PROVE  /\ ImageOK(image') /\ SameImages /\ CallsOK(calls')
         /\ DOMAIN calls' = DOMAIN calls
         /\ \A c \in DOMAIN calls:
              /\ calls'[c].owner = calls[c].owner
              /\ calls'[c].lost \cap {"tool", "code"} = calls[c].lost \cap {"tool", "code"}
<1>1. ImageOK(image) /\ CallsOK(calls)
  BY Types
<1> DEFINE parts == IF image[p].lib.stops THEN State(p) ELSE {}
<1>2. parts \in SUBSET Parts /\ parts \subseteq {"state"}
  BY DEF State, Parts
<1>3. image' = Stopped(p) /\ calls' = Taken(p, parts)
  BY DEF Shutdown
<1> HIDE DEF parts
<1>4. /\ CallsOK(calls') /\ DOMAIN calls' = DOMAIN calls
      /\ \A c \in DOMAIN calls:
           /\ calls'[c].owner = calls[c].owner
           /\ calls'[c].lost = IF calls[c].owner = p THEN calls[c].lost \cup parts
                                                     ELSE calls[c].lost
  BY <1>1, <1>2, <1>3, TakenDef
<1>5. ImageOK(image') /\ SameImages
  BY <1>1, <1>3, StoppedDef DEF SameImages
<1>6. QED
  BY <1>2, <1>4, <1>5

LEMMA ClosedDef ==
  ASSUME NEW img, ImageOK(img), NEW p \in DOMAIN img
  PROVE  /\ ImageOK(Closed(img, p))
         /\ DOMAIN Closed(img, p) =
              IF img[p].handles = 1 THEN DOMAIN img \ {p} ELSE DOMAIN img
         /\ \A q \in DOMAIN Closed(img, p):
              /\ Closed(img, p)[q].lib = img[q].lib
              /\ Closed(img, p)[q].handles =
                   IF q = p THEN img[q].handles - 1 ELSE img[q].handles
<1>1. CASE img[p].handles = 1
  BY <1>1, RestrictDef DEF Closed, ImageOK
<1>2. CASE img[p].handles # 1
  <2>1. Closed(img, p) = [img EXCEPT ![p].handles = @ - 1]
    BY <1>2 DEF Closed
  <2>2. /\ DOMAIN Closed(img, p) = DOMAIN img
        /\ Closed(img, p)[p] = [img[p] EXCEPT !.handles = @ - 1]
        /\ \A q \in DOMAIN img \ {p}: Closed(img, p)[q] = img[q]
    BY <2>1
  <2>3. img[p] \in ImageType
    BY DEF ImageOK
  <2>4. /\ Closed(img, p)[p] \in ImageType /\ Closed(img, p)[p].lib = img[p].lib
        /\ Closed(img, p)[p].handles = img[p].handles - 1
    BY <1>2, <2>2, <2>3 DEF ImageType
  <2>5. QED
    BY <1>2, <2>2, <2>4 DEF ImageOK
<1>3. QED
  BY <1>1, <1>2

\* One handle on p is closed; what it takes from the calls is its code, when
\* it was the last, and its state.
LEMMA CloseDef ==
  ASSUME TypeOK, NEW p \in DOMAIN image, DlClose(p) \/ ShutdownAndClose(p)
  PROVE  /\ ImageOK(image') /\ CallsOK(calls') /\ DOMAIN calls' = DOMAIN calls
         /\ HandlesOf(p)' = HandlesOf(p) - 1
         /\ \A q \in Files \ {p}: HandlesOf(q)' = HandlesOf(q)
         /\ \A c \in DOMAIN calls:
              /\ calls'[c].owner = calls[c].owner
              /\ calls[c].owner # p => calls'[c].lost = calls[c].lost
              /\ calls[c].owner = p =>
                   /\ calls[c].lost \cup Code(p) \subseteq calls'[c].lost
                   /\ calls'[c].lost \subseteq calls[c].lost \cup Code(p) \cup {"state"}
<1>1. ImageOK(image) /\ CallsOK(calls)
  BY Types
<1>2. PICK img : /\ image' = Closed(img, p) /\ ImageOK(img)
                 /\ DOMAIN img = DOMAIN image
                 /\ \A q \in DOMAIN image: /\ img[q].handles = image[q].handles
                                           /\ img[q].lib = image[q].lib
  <2>1. CASE DlClose(p)
    BY <1>1, <2>1 DEF DlClose
  <2>2. CASE ShutdownAndClose(p)
    BY <1>1, <2>2, StoppedDef DEF ShutdownAndClose
  <2>3. QED
    BY <2>1, <2>2
<1>3. PICK parts \in SUBSET Parts :
        /\ calls' = Taken(p, parts)
        /\ Code(p) \subseteq parts /\ parts \subseteq Code(p) \cup {"state"}
  <2>1. Code(p) \in SUBSET Parts /\ State(p) \in SUBSET Parts /\ State(p) \subseteq {"state"}
    BY DEF Code, State, Parts
  <2>2. CASE DlClose(p)
    BY <2>1, <2>2 DEF DlClose
  <2>3. CASE ShutdownAndClose(p)
    <3>1. PICK parts \in SUBSET Parts :
            parts = Code(p) \cup IF image[p].lib.stops THEN State(p) ELSE {}
      BY <2>1
    <3>2. QED
      BY <2>1, <2>3, <3>1 DEF ShutdownAndClose
  <2>4. QED
    BY <2>2, <2>3
<1>4. /\ ImageOK(image')
      /\ DOMAIN image' = IF image[p].handles = 1 THEN DOMAIN image \ {p} ELSE DOMAIN image
      /\ \A q \in DOMAIN image': image'[q].handles =
           IF q = p THEN image[q].handles - 1 ELSE image[q].handles
  <2>0. p \in DOMAIN img /\ ImageOK(img)
    BY <1>2
  <2>1. /\ ImageOK(Closed(img, p))
        /\ DOMAIN Closed(img, p) =
             IF img[p].handles = 1 THEN DOMAIN img \ {p} ELSE DOMAIN img
        /\ \A q \in DOMAIN Closed(img, p): Closed(img, p)[q].handles =
             IF q = p THEN img[q].handles - 1 ELSE img[q].handles
    BY <2>0, ClosedDef
  <2>2. DOMAIN image' \subseteq DOMAIN image
    BY <1>2, <2>1
  <2>3. QED
    BY <1>2, <2>1, <2>2
<1>5. HandlesOf(p)' = HandlesOf(p) - 1
  BY <1>1, <1>4 DEF HandlesOf, ImageOK, ImageType
<1>6. \A q \in Files \ {p}: HandlesOf(q)' = HandlesOf(q)
  BY <1>4 DEF HandlesOf
<1>7. /\ CallsOK(calls') /\ DOMAIN calls' = DOMAIN calls
      /\ \A c \in DOMAIN calls:
           /\ calls'[c].owner = calls[c].owner
           /\ calls'[c].lost = IF calls[c].owner = p THEN calls[c].lost \cup parts
                                                     ELSE calls[c].lost
  BY <1>1, <1>3, TakenDef
<1>8. QED
  BY <1>3, <1>4, <1>5, <1>6, <1>7

------------------------------------------------------------------------------
(* plugins_ and the job.                                                      *)

PluginType == [path: Files, names: Seq(Names)]

LEMMA PathsDef ==
  ASSUME TypeOK
  PROVE  /\ LoadedPaths \in Seq(Files) /\ DOMAIN LoadedPaths = DOMAIN plugins
         /\ \A i \in DOMAIN plugins: LoadedPaths[i] = plugins[i].path
         /\ \A p: p \in Range(LoadedPaths) <=> Loaded(p)
<1>1. /\ plugins \in Seq(PluginType) /\ DOMAIN plugins = 1 .. Len(plugins)
      /\ Len(plugins) \in Nat
      /\ \A i \in DOMAIN plugins: plugins[i].path \in Files
  <2>1. plugins \in Seq(PluginType)
    BY DEF TypeOK, PluginType
  <2>2. \A i \in DOMAIN plugins: plugins[i] \in PluginType
    BY <2>1
  <2>3. QED
    BY <2>1, <2>2 DEF PluginType
<1>2. DOMAIN LoadedPaths = DOMAIN plugins
  BY DEF LoadedPaths
<1>3. \A i \in DOMAIN plugins: LoadedPaths[i] = plugins[i].path
  BY DEF LoadedPaths
<1>4. LoadedPaths \in Seq(Files)
  BY <1>1 DEF LoadedPaths
<1>5. QED
  BY <1>2, <1>3, <1>4 DEF Range, Loaded

LEMMA KeptDef ==
  ASSUME PathsOnce, NEW p
  PROVE  Kept(p) = IF Loaded(p) THEN 1 ELSE 0
<1> DEFINE at == {i \in DOMAIN plugins: plugins[i].path = p}
<1>1. Kept(p) = Cardinality(at)
  BY DEF Kept
<1>2. CASE Loaded(p)
  <2>1. PICK i \in DOMAIN plugins: plugins[i].path = p
    BY <1>2 DEF Loaded
  <2>2. at = {i}
    BY <2>1 DEF PathsOnce
  <2>3. QED
    BY <1>1, <1>2, <2>2, FS_Singleton
<1>3. CASE ~Loaded(p)
  <2>1. at = {}
    BY <1>3 DEF Loaded
  <2>2. QED
    BY <1>1, <1>3, <2>1, FS_EmptySet
<1>4. QED
  BY <1>2, <1>3

LEMMA PositionDef ==
  ASSUME PathsOnce, NEW i \in DOMAIN plugins
  PROVE  /\ Position(plugins[i].path) = i
         /\ ToolsOf(plugins[i].path) = plugins[i].names
  BY DEF Position, ToolsOf, PathsOnce

LEMMA LoadedPosition ==
  ASSUME NEW p, Loaded(p)
  PROVE  /\ Position(p) \in DOMAIN plugins /\ plugins[Position(p)].path = p
         /\ ToolsOf(p) = plugins[Position(p)].names
  BY DEF Position, Loaded, ToolsOf

LEMMA WithoutDef ==
  ASSUME TypeOK, PathsOnce, NEW p, Loaded(p), plugins' = Without(p)
  PROVE  /\ plugins' \in Seq(PluginType) /\ PathsOnce'
         /\ \A q: Loaded(q)' <=> Loaded(q) /\ q # p
         /\ \A i \in DOMAIN plugins': \E j \in DOMAIN plugins: plugins'[i] = plugins[j]
<1> DEFINE n == Len(plugins)
           k == Position(p)
<1>1. /\ plugins \in Seq(PluginType) /\ n \in Nat /\ DOMAIN plugins = 1 .. n
      /\ k \in 1 .. n /\ plugins[k].path = p
  BY LoadedPosition DEF TypeOK, PluginType
<1> HIDE DEF n, k
<1>2. /\ DOMAIN plugins' = 1 .. n - 1
      /\ \A i \in 1 .. n - 1: plugins'[i] = IF i < k THEN plugins[i] ELSE plugins[i + 1]
  BY DEF Without, n, k
<1>3. \A i \in 1 .. n - 1: \E j \in 1 .. n:
        j = (IF i < k THEN i ELSE i + 1) /\ j # k /\ plugins'[i] = plugins[j]
  BY <1>1, <1>2
<1>4. \A i \in 1 .. n - 1: plugins'[i] \in PluginType
  BY <1>1, <1>3
<1>5. plugins' \in Seq(PluginType)
  <2>1. n - 1 \in Nat
    BY <1>1
  <2>2. plugins' = [i \in 1 .. n - 1 |-> plugins'[i]]
    BY <1>2 DEF Without, n
  <2>3. QED
    BY <1>4, <2>1, <2>2
<1>6. ASSUME NEW i \in DOMAIN plugins', NEW j \in DOMAIN plugins',
             plugins'[i].path = plugins'[j].path
      PROVE  i = j
  <2>1. PICK a \in 1 .. n: a = (IF i < k THEN i ELSE i + 1) /\ plugins'[i] = plugins[a]
    BY <1>2, <1>3
  <2>2. PICK b \in 1 .. n: b = (IF j < k THEN j ELSE j + 1) /\ plugins'[j] = plugins[b]
    BY <1>2, <1>3
  <2>3. a = b
    BY <1>1, <1>6, <2>1, <2>2 DEF PathsOnce
  <2>4. i \in Int /\ j \in Int /\ k \in Int
    BY <1>1, <1>2
  <2>5. QED
    BY <2>1, <2>2, <2>3, <2>4
<1>7. ASSUME NEW q, Loaded(q), q # p
      PROVE  Loaded(q)'
  <2>1. PICK j \in 1 .. n: plugins[j].path = q
    BY <1>1, <1>7 DEF Loaded
  <2>2. j # k
    BY <1>1, <1>7, <2>1
  <2>3. PICK i \in 1 .. n - 1: plugins'[i] = plugins[j]
    <3>1. CASE j < k
      BY <1>1, <1>2, <3>1
    <3>2. CASE j > k
      <4>1. j - 1 \in 1 .. n - 1 /\ ~(j - 1 < k) /\ (j - 1) + 1 = j
        BY <1>1, <3>2
      <4>2. plugins'[j - 1] = plugins[j]
        BY <1>2, <4>1
      <4>3. QED
        BY <4>1, <4>2
    <3>3. QED
      BY <1>1, <2>2, <3>1, <3>2
  <2>4. QED
    BY <1>2, <2>1, <2>3 DEF Loaded
<1>8. ASSUME NEW q, Loaded(q)'
      PROVE  Loaded(q) /\ q # p
  <2>1. PICK i \in 1 .. n - 1: plugins'[i].path = q
    BY <1>2, <1>8 DEF Loaded
  <2>2. PICK j \in 1 .. n: j # k /\ plugins'[i] = plugins[j]
    BY <1>3
  <2>3. QED
    BY <1>1, <2>1, <2>2 DEF Loaded, PathsOnce
<1>9. QED
  BY <1>1, <1>2, <1>3, <1>5, <1>6, <1>7, <1>8 DEF PathsOnce

LEMMA AppendedDef ==
  ASSUME TypeOK, PathsOnce, NEW entry \in PluginType, ~Loaded(entry.path),
         plugins' = Append(plugins, entry)
  PROVE  /\ plugins' \in Seq(PluginType) /\ PathsOnce'
         /\ \A q: Loaded(q)' <=> Loaded(q) \/ q = entry.path
         /\ \A i \in DOMAIN plugins':
              plugins'[i] = entry \/ \E j \in DOMAIN plugins: plugins'[i] = plugins[j]
         /\ ToolsOf(entry.path)' = entry.names
<1>1. /\ plugins \in Seq(PluginType) /\ Len(plugins) \in Nat
      /\ DOMAIN plugins = 1 .. Len(plugins)
  BY DEF TypeOK, PluginType
<1>2. /\ plugins' \in Seq(PluginType)
      /\ DOMAIN plugins' = DOMAIN plugins \cup {Len(plugins) + 1}
      /\ Len(plugins) + 1 \notin DOMAIN plugins
      /\ plugins'[Len(plugins) + 1] = entry
      /\ \A i \in DOMAIN plugins: plugins'[i] = plugins[i]
  BY <1>1
<1>3. PathsOnce'
  BY <1>2 DEF PathsOnce, Loaded
<1>4. \A q: Loaded(q)' <=> Loaded(q) \/ q = entry.path
  BY <1>2 DEF Loaded
<1>5. ToolsOf(entry.path)' = entry.names
  <2>1. \A i \in DOMAIN plugins': plugins'[i].path = entry.path <=> i = Len(plugins) + 1
    BY <1>2 DEF Loaded
  <2>2. (CHOOSE i \in DOMAIN plugins': plugins'[i].path = entry.path) = Len(plugins) + 1
    BY <1>2, <2>1
  <2>3. QED
    BY <1>2, <2>2 DEF ToolsOf, Position
<1>6. QED
  BY <1>2, <1>3, <1>4, <1>5

\* A job that has just been set is at the begin of its next part.
LEMMA FreshJob ==
  ASSUME NEW todo \in Seq(Files), NEW victims \in Seq(Files),
         NEW entries \in Seq(Files), job' = Remaining(todo, victims, entries),
         life' # "gone"
  PROVE  /\ job' \in JobType /\ JobShape' /\ NotTooMany'
         /\ job'.todo = todo /\ job'.victims = victims /\ job'.entries = entries
         /\ job'.phase \in {"validate", "unload", "load", "idle"} /\ job'.names = <<>>
         /\ \A p: ~HandedOut(p)'
<1>1. /\ job' \in JobType
      /\ job'.todo = todo /\ job'.victims = victims /\ job'.entries = entries
      /\ job'.names = <<>>
      /\ job'.phase \in {"validate", "unload", "load", "idle"}
      /\ job'.phase = "validate" <=> todo # <<>>
      /\ job'.phase = "unload" <=> todo = <<>> /\ victims # <<>>
      /\ job'.phase = "load" <=> todo = <<>> /\ victims = <<>> /\ entries # <<>>
  BY RemainingDef
<1>2. JobShape'
  BY <1>1 DEF JobShape, MutexFree, Validating, Loading
<1>3. NotTooMany' /\ \A p: ~HandedOut(p)'
  BY <1>1 DEF NotTooMany, HandedOut, Validating, Loading
<1>4. QED
  BY <1>1, <1>2, <1>3

\* What the invariant says of the library in hand.
LEMMA InHand ==
  ASSUME BaseInv, NEW p \in Files, HandedOut(p)
  PROVE  p \in DOMAIN image /\ image[p].handles = IF Loaded(p) THEN 2 ELSE 1
<1>1. HandlesOf(p) = IF Loaded(p) THEN 2 ELSE 1
  BY DEF BaseInv, EachHandleDue, Due
<1>2. QED
  BY <1>1 DEF HandlesOf

LEMMA LoadedIsMapped ==
  ASSUME BaseInv, NEW p \in Files, Loaded(p)
  PROVE  p \in DOMAIN image /\ (~HandedOut(p) => image[p].handles = 1)
<1>1. HandlesOf(p) = IF HandedOut(p) THEN 2 ELSE 1
  BY DEF BaseInv, EachHandleDue, Due
<1>2. QED
  BY <1>1 DEF HandlesOf

\* The parts of the job that each phase works on.
LEMMA Hands ==
  ASSUME BaseInv
  PROVE  /\ job.phase \in Validating => Validated \in Files /\ Tail(job.todo) \in Seq(Files)
         /\ job.phase \in {"unload", "unregister"} =>
              Victim \in Files /\ Loaded(Victim) /\ Tail(job.victims) \in Seq(Files)
         /\ job.phase \in Loading => Entry \in Files /\ Tail(job.entries) \in Seq(Files)
         /\ job.phase \in {"trial", "passed", "rejected"} =>
              \A p: HandedOut(p) <=> p = Validated
         /\ job.phase \in {"init", "register", "failed"} =>
              /\ ~Loaded(Entry)
              /\ \A p: HandedOut(p) <=> p = Entry
         /\ job.phase \in {"idle", "validate", "unload", "unregister", "load"} =>
              \A p: ~HandedOut(p)
<1> USE DEF BaseInv, JobShape, ListedOnce, Validated, Victim, Entry, Validating, Loading
<1>1. job \in JobType
  BY Types
<1>2. /\ job.todo \in Seq(Files) /\ job.victims \in Seq(Files)
      /\ job.entries \in Seq(Files)
  BY <1>1 DEF JobType
<1>3. job.phase \in Validating => Validated \in Files /\ Tail(job.todo) \in Seq(Files)
  BY <1>2
<1>4. job.phase \in {"unload", "unregister"} =>
        Victim \in Files /\ Loaded(Victim) /\ Tail(job.victims) \in Seq(Files)
  <2>1. SUFFICES ASSUME job.victims # <<>>
                 PROVE  Victim \in Files /\ Loaded(Victim) /\ Tail(job.victims) \in Seq(Files)
    OBVIOUS
  <2>2. 1 \in DOMAIN job.victims /\ Victim = job.victims[1]
    BY <1>2, <2>1
  <2>3. QED
    BY <1>2, <2>1, <2>2
<1>5. job.phase \in Loading => Entry \in Files /\ Tail(job.entries) \in Seq(Files)
  BY <1>2
<1>6. QED
  BY <1>3, <1>4, <1>5 DEF HandedOut

------------------------------------------------------------------------------
(* The base invariant is inductive: one lemma for the actions that set a new  *)
(* job, one for those that go on with the one at hand.                        *)

ToolsOK(ts) == DOMAIN ts \subseteq Names /\ \A n \in DOMAIN ts: ts[n] \in Owners
DiskOK(d) == DOMAIN d \subseteq Files /\ \A p \in DOMAIN d: d[p] \in Libraries
Victims(victims) ==
  /\ \A i \in DOMAIN victims: Loaded(victims[i])
  /\ \A i, j \in DOMAIN victims: victims[i] = victims[j] => i = j

LEMMA TypeFrom ==
  ASSUME ToolsOK(tools'), CallsOK(calls'), DiskOK(disk'), ImageOK(image'),
         plugins' \in Seq(PluginType), job' \in JobType, life' \in Lives
  PROVE  TypeOK'
  BY DEF TypeOK, ToolManagerTypeOK, ToolsOK, CallsOK, DiskOK, ImageOK, ImageType,
         PluginType, JobType

LEMMA TypeParts ==
  ASSUME TypeOK
  PROVE  /\ ToolsOK(tools) /\ CallsOK(calls) /\ DiskOK(disk) /\ ImageOK(image)
         /\ plugins \in Seq(PluginType) /\ job \in JobType /\ life \in Lives
  BY DEF TypeOK, ToolManagerTypeOK, ToolsOK, CallsOK, DiskOK, ImageOK, ImageType,
         PluginType, JobType

LEMMA FreshBase ==
  ASSUME NEW todo \in Seq(Files), NEW victims \in Seq(Files),
         NEW entries \in Seq(Files), job' = Remaining(todo, victims, entries),
         ToolsOK(tools'), CallsOK(calls'), DiskOK(disk'), ImageOK(image'),
         plugins' \in Seq(PluginType), PathsOnce', Victims(victims)',
         life' \in Lives \ {"gone"},
         \A p \in Files: HandlesOf(p)' = IF Loaded(p)' THEN 1 ELSE 0
  PROVE  BaseInv'
<1>1. /\ job' \in JobType /\ JobShape' /\ NotTooMany'
      /\ job'.victims = victims
      /\ job'.phase \in {"validate", "unload", "load", "idle"}
      /\ \A p: ~HandedOut(p)'
  BY FreshJob
<1>2. TypeOK'
  BY <1>1, TypeFrom
<1>3. ListedOnce'
  BY <1>1 DEF ListedOnce, Victims, Loading
<1>4. EachHandleDue'
  BY <1>1 DEF EachHandleDue, Due
<1>5. QED
  BY <1>1, <1>2, <1>3, <1>4 DEF BaseInv

\* The job goes on in another phase, on the same files.
LEMMA SameFiles ==
  ASSUME BaseInv, NEW phase \in Phases, NEW names \in Seq(Names),
         job' = [job EXCEPT !.phase = phase, !.names = names]
  PROVE  /\ job' \in JobType /\ job'.phase = phase /\ job'.names = names
         /\ UNCHANGED <<job.todo, job.victims, job.entries>>
         /\ UNCHANGED <<Validated, Victim, Entry>>
<1>1. job \in JobType
  BY TypeParts DEF BaseInv
<1>2. /\ job' \in JobType /\ job'.phase = phase /\ job'.names = names
      /\ UNCHANGED <<job.todo, job.victims, job.entries>>
  BY <1>1 DEF JobType
<1>3. QED
  BY <1>2 DEF Validated, Victim, Entry

LEMMA ToPhase ==
  ASSUME BaseInv, NEW phase \in Phases, To(phase)
  PROVE  job.names \in Seq(Names) /\ job' = [job EXCEPT !.phase = phase, !.names = job.names]
<1>1. job \in JobType
  BY TypeParts DEF BaseInv
<1>2. QED
  BY <1>1 DEF To, JobType

LEMMA NoneGone == ASSUME BaseInv, ~MutexFree PROVE life # "gone"
  BY DEF BaseInv, JobShape

LEMMA OperationBase == ASSUME BaseInv, Operation PROVE BaseInv'
<1>0. /\ TypeOK /\ ListedOnce /\ PathsOnce /\ EachHandleDue
      /\ ToolsOK(tools) /\ CallsOK(calls) /\ DiskOK(disk) /\ ImageOK(image)
      /\ plugins \in Seq(PluginType) /\ <<>> \in Seq(Files)
  BY TypeParts DEF BaseInv, ListedOnce
<1>1. /\ UNCHANGED <<tools, calls, disk, image, plugins>> /\ MutexFree
      /\ life' \in Lives \ {"gone"}
  <2>1. life \in Lives
    BY <1>0 DEF TypeOK
  <2>2. QED
    BY <2>1 DEF Operation, LoadFromDirectory, ReloadFromDirectory, UnloadAll, ReloadPlugin, Lives
<1>2. \A p \in Files: HandlesOf(p)' = IF Loaded(p)' THEN 1 ELSE 0
  <2>1. \A p: ~HandedOut(p)
    BY <1>1, Hands DEF MutexFree
  <2>2. QED
    BY <1>0, <1>1, <2>1 DEF EachHandleDue, Due, HandlesOf, Loaded
<1>3. PathsOnce' /\ \A v: Victims(v) => Victims(v)'
  BY <1>0, <1>1 DEF PathsOnce, Victims, Loaded
<1>4. Scan \in Seq(Files)
  BY <1>0, SortedListsAll DEF Scan, DiskOK
<1>5. LoadedPaths \in Seq(Files) /\ Victims(LoadedPaths) /\ Victims(<<>>)
  BY <1>0, PathsDef DEF Victims, Loaded, PathsOnce
<1>6. \A p: p \in Range(LoadedPaths) <=> Loaded(p)
  BY <1>0, PathsDef
<1>7. PICK todo \in Seq(Files), victims \in Seq(Files), entries \in Seq(Files):
        job' = Remaining(todo, victims, entries) /\ Victims(victims)
  <2>1. CASE LoadFromDirectory
    BY <1>0, <1>4, <1>5, <2>1 DEF LoadFromDirectory
  <2>2. CASE ReloadFromDirectory
    BY <1>4, <1>5, <2>2 DEF ReloadFromDirectory
  <2>3. CASE UnloadAll
    BY <1>0, <1>5, <2>3 DEF UnloadAll
  <2>4. ASSUME NEW p \in Files, ReloadPlugin(p)
        PROVE  \E todo \in Seq(Files), victims \in Seq(Files), entries \in Seq(Files):
                 job' = Remaining(todo, victims, entries) /\ Victims(victims)
    <3>1. <<p>> \in Seq(Files)
      OBVIOUS
    <3>2. CASE p \in Range(LoadedPaths)
      <4>1. Victims(<<p>>)
        <5>1. Loaded(p) /\ DOMAIN <<p>> = {1} /\ <<p>>[1] = p
          BY <1>6, <3>2
        <5>2. QED
          BY <5>1 DEF Victims
      <4>2. QED
        BY <2>4, <3>1, <3>2, <4>1 DEF ReloadPlugin
    <3>3. CASE p \notin Range(LoadedPaths)
      BY <1>0, <1>5, <2>4, <3>1, <3>3 DEF ReloadPlugin
    <3>4. QED
      BY <3>2, <3>3
  <2>5. QED
    BY <2>1, <2>2, <2>3, <2>4 DEF Operation
<1>8. Victims(victims)'
  BY <1>3, <1>7
<1>9. /\ ToolsOK(tools') /\ CallsOK(calls') /\ DiskOK(disk') /\ ImageOK(image')
      /\ plugins' \in Seq(PluginType)
  BY <1>0, <1>1
<1>10. QED
  BY <1>1, <1>2, <1>3, <1>7, <1>8, <1>9, FreshBase

LEMMA ValidateBase == ASSUME BaseInv, Validate PROVE BaseInv'
<1>0. /\ TypeOK /\ ListedOnce /\ PathsOnce /\ EachHandleDue /\ JobShape
      /\ ToolsOK(tools) /\ CallsOK(calls) /\ DiskOK(disk) /\ ImageOK(image)
      /\ plugins \in Seq(PluginType) /\ <<>> \in Seq(Files)
      /\ job \in JobType /\ life \in Lives
  BY TypeParts DEF BaseInv, ListedOnce
<1>1. UNCHANGED <<tools, disk, plugins, life>> /\ job.phase \in Validating
  BY DEF Validate, ValidateOpen, ValidateCannotOpen, ActivateOnTrial, ValidateClose,
         Validating
<1>2. /\ Validated \in Files /\ Tail(job.todo) \in Seq(Files)
      /\ job.victims \in Seq(Files) /\ job.entries \in Seq(Files)
      /\ job.names = <<>> /\ job.todo # <<>> /\ life # "gone"
  BY <1>0, <1>1, Hands DEF JobType, JobShape, Validating, MutexFree
<1>3. /\ PathsOnce' /\ \A p: Loaded(p)' <=> Loaded(p)
      /\ \A v: Victims(v) => Victims(v)'
      /\ ToolsOK(tools') /\ DiskOK(disk') /\ plugins' \in Seq(PluginType)
      /\ life' \in Lives \ {"gone"}
  BY <1>0, <1>1, <1>2 DEF PathsOnce, Loaded, Victims
<1>4. Victims(job.victims) /\ Victims(<<>>)
  BY <1>0 DEF ListedOnce, Victims
<1>5. ASSUME NEW phase \in Validating \ {"validate"}, To(phase), CallsOK(calls'),
             ImageOK(image'),
             \A p \in Files: HandlesOf(p)' =
               (IF Loaded(p) THEN 1 ELSE 0) + (IF p = Validated THEN 1 ELSE 0)
      PROVE  BaseInv'
  <2>1. /\ job' \in JobType /\ job'.phase = phase /\ job'.names = job.names
        /\ UNCHANGED <<job.todo, job.victims, job.entries>> /\ Validated' = Validated
    <3>1. phase \in Phases
      BY <1>5 DEF Phases, Validating
    <3>2. QED
      BY <1>5, <3>1, ToPhase, SameFiles
  <2>2. TypeOK'
    BY <1>3, <1>5, <2>1, TypeFrom
  <2>3. JobShape' /\ NotTooMany'
    BY <1>2, <1>3, <1>5, <2>1
       DEF JobShape, NotTooMany, Validating, Loading, MutexFree
  <2>4. ListedOnce'
    BY <1>0, <1>3, <1>5, <2>1 DEF ListedOnce, Validating, Loading
  <2>5. \A p: HandedOut(p)' <=> p = Validated
    BY <1>5, <2>1 DEF HandedOut, Validating, Loading
  <2>6. EachHandleDue'
    BY <1>3, <1>5, <2>5 DEF EachHandleDue, Due
  <2>7. QED
    BY <2>2, <2>3, <2>4, <2>6 DEF BaseInv
<1>6. CASE ValidateOpen
  <2>0. PICK v \in Files: v = Validated
    BY <1>2
  <2>1. \A p: ~HandedOut(p)
    BY <1>6, Hands DEF ValidateOpen
  <2>2. /\ ImageOK(image') /\ HandlesOf(v)' = HandlesOf(v) + 1
        /\ \A q \in Files \ {v}: HandlesOf(q)' = HandlesOf(q)
    BY <1>0, <1>6, <2>0, OpenDef DEF ValidateOpen
  <2>3. \A p \in Files: HandlesOf(p)' =
          (IF Loaded(p) THEN 1 ELSE 0) + (IF p = Validated THEN 1 ELSE 0)
    BY <1>0, <2>0, <2>1, <2>2 DEF EachHandleDue, Due
  <2>4. QED
    BY <1>0, <1>5, <1>6, <2>2, <2>3 DEF ValidateOpen, Validating
<1>7. CASE ValidateCannotOpen
  <2>1. job' = Remaining(<<>>, <<>>, <<>>) /\ UNCHANGED <<calls, image>>
    BY <1>7 DEF ValidateCannotOpen, Abort, Idle
  <2>2. \A p: ~HandedOut(p)
    BY <1>7, Hands DEF ValidateCannotOpen
  <2>3. \A p \in Files: HandlesOf(p)' = IF Loaded(p)' THEN 1 ELSE 0
    BY <1>0, <1>3, <2>1, <2>2 DEF EachHandleDue, Due, HandlesOf
  <2>4. QED
    BY <1>0, <1>3, <1>4, <2>1, <2>3, FreshBase
<1>8. CASE ActivateOnTrial
  <2>1. job.phase = "trial" /\ HandedOut(Validated) /\ \A p: HandedOut(p) <=> p = Validated
    BY <1>8, Hands DEF ActivateOnTrial
  <2>2. Validated \in DOMAIN image
    BY <1>2, <2>1, InHand
  <2>3. ImageOK(image') /\ SameImages /\ CallsOK(calls')
    <3>1. CASE UNCHANGED <<image, calls>>
      BY <1>0, <3>1 DEF SameImages
    <3>2. CASE RenewedAndShutdown(Validated)
      BY <1>0, <2>2, <3>2, RenewedDef
    <3>3. CASE Renewed(Validated)
      BY <1>0, <2>2, <3>3, RenewedDef
    <3>4. QED
      BY <1>8, <3>1, <3>2, <3>3 DEF ActivateOnTrial
  <2>4. \A p \in Files: HandlesOf(p)' =
          (IF Loaded(p) THEN 1 ELSE 0) + (IF p = Validated THEN 1 ELSE 0)
    BY <1>0, <2>1, <2>3, SameHandles DEF EachHandleDue, Due
  <2>5. PICK phase \in {"passed", "rejected"}: To(phase)
    BY <1>8 DEF ActivateOnTrial
  <2>6. phase \in Validating \ {"validate"}
    BY <2>5 DEF Validating
  <2>7. QED
    BY <1>5, <2>3, <2>4, <2>5, <2>6
<1>9. CASE ValidateClose
  <2>0. PICK v \in Files: v = Validated
    BY <1>2
  <2>1. \A p: HandedOut(p) <=> p = v
    BY <1>9, <2>0, Hands DEF ValidateClose
  <2>2. v \in DOMAIN image /\ ShutdownAndClose(v)
    BY <1>9, <2>0, <2>1, InHand DEF ValidateClose
  <2>3. /\ ImageOK(image') /\ CallsOK(calls')
        /\ HandlesOf(v)' = HandlesOf(v) - 1
        /\ \A q \in Files \ {v}: HandlesOf(q)' = HandlesOf(q)
    BY <1>0, <2>2, CloseDef
  <2>4. \A p \in Files: HandlesOf(p)' = IF Loaded(p)' THEN 1 ELSE 0
    BY <1>0, <1>3, <2>1, <2>3 DEF EachHandleDue, Due
  <2>5. PICK todo \in Seq(Files), victims \in Seq(Files), entries \in Seq(Files):
          job' = Remaining(todo, victims, entries) /\ Victims(victims)
    BY <1>0, <1>2, <1>4, <1>9 DEF ValidateClose, Abort, Idle
  <2>6. Victims(victims)'
    BY <1>3, <2>5
  <2>7. QED
    BY <1>3, <2>3, <2>4, <2>5, <2>6, FreshBase
<1>10. QED
  BY <1>6, <1>7, <1>8, <1>9 DEF Validate

LEMMA LostDef ==
  ASSUME CallsOK(calls), NEW parts \in SUBSET Parts, NEW hit,
         calls' = Losing(parts, hit)
  PROVE  /\ CallsOK(calls') /\ DOMAIN calls' = DOMAIN calls
         /\ \A c \in DOMAIN calls: /\ calls'[c].owner = calls[c].owner
                                   /\ calls[c].lost \subseteq calls'[c].lost
<1>1. /\ CallsOK(Losing(parts, hit))
      /\ DOMAIN Losing(parts, hit) = DOMAIN calls
      /\ \A c \in DOMAIN calls:
           /\ Losing(parts, hit)[c].name = calls[c].name
           /\ Losing(parts, hit)[c].owner = calls[c].owner
           /\ Losing(parts, hit)[c].lost =
                IF c \in hit THEN calls[c].lost \cup parts ELSE calls[c].lost
  BY LosingDef, Zenon
<1>2. QED
  BY <1>1

LEMMA UnregisterDef ==
  ASSUME ToolsOK(tools), CallsOK(calls), NEW n \in Names, UnregisterTool(n)
  PROVE  /\ ToolsOK(tools') /\ CallsOK(calls') /\ DOMAIN calls' = DOMAIN calls
         /\ DOMAIN tools' = DOMAIN tools \ {n}
         /\ \A m \in DOMAIN tools': tools'[m] = tools[m]
         /\ \A c \in DOMAIN calls: /\ calls'[c].owner = calls[c].owner
                                   /\ calls[c].lost \subseteq calls'[c].lost
<1>1. PICK parts \in SUBSET Parts: parts = {"tool"}
  BY DEF Parts
<1>2. PICK hit: tools' = Restrict(tools, DOMAIN tools \ {n}) /\ calls' = Losing(parts, hit)
  BY <1>1 DEF UnregisterTool
<1>3. DOMAIN tools' = DOMAIN tools \ {n} /\ \A m \in DOMAIN tools': tools'[m] = tools[m]
  BY <1>2 DEF Restrict
<1>4. ToolsOK(tools')
  BY <1>3 DEF ToolsOK
<1>5. calls' = Losing(parts, hit)
  BY <1>2
<1>6. /\ CallsOK(calls') /\ DOMAIN calls' = DOMAIN calls
      /\ \A c \in DOMAIN calls: /\ calls'[c].owner = calls[c].owner
                                /\ calls[c].lost \subseteq calls'[c].lost
  BY <1>5, LostDef
<1>7. QED
  BY <1>3, <1>4, <1>6

LEMMA UnloadBase == ASSUME BaseInv, Unload PROVE BaseInv'
<1>0. /\ TypeOK /\ ListedOnce /\ PathsOnce /\ EachHandleDue /\ JobShape
      /\ ToolsOK(tools) /\ CallsOK(calls) /\ DiskOK(disk) /\ ImageOK(image)
      /\ plugins \in Seq(PluginType) /\ <<>> \in Seq(Files)
      /\ job \in JobType /\ life \in Lives
  BY TypeParts DEF BaseInv, ListedOnce
<1>1. UNCHANGED <<disk, life>> /\ job.phase \in {"unload", "unregister"}
  BY DEF Unload, UnloadShutdown, UnloadUnregister, UnloadClose
<1>2. /\ Victim \in Files /\ Loaded(Victim) /\ Tail(job.victims) \in Seq(Files)
      /\ job.todo = <<>> /\ job.victims # <<>> /\ life # "gone"
      /\ job.victims \in Seq(Files) /\ job.entries \in Seq(Files)
      /\ job.names \in Seq(Names)
  BY <1>0, <1>1, Hands DEF JobType, JobShape, MutexFree
<1>3. PICK v \in Files: v = Victim
  BY <1>2
<1>4. \A p: ~HandedOut(p)
  BY <1>1, Hands
<1>5. v \in DOMAIN image
  BY <1>2, <1>3, LoadedIsMapped
<1>6. ASSUME NEW names \in Seq(Names),
             job' = [job EXCEPT !.phase = "unregister", !.names = names],
             UNCHANGED plugins, SameImages,
             ToolsOK(tools'), CallsOK(calls'), ImageOK(image')
      PROVE  BaseInv'
  <2>1. /\ job' \in JobType /\ job'.phase = "unregister"
        /\ UNCHANGED <<job.todo, job.victims, job.entries>>
    <3>1. "unregister" \in Phases
      BY DEF Phases
    <3>2. QED
      BY <1>6, <3>1, SameFiles
  <2>2. PathsOnce' /\ \A p: Loaded(p)' <=> Loaded(p)
    BY <1>0, <1>6 DEF PathsOnce, Loaded
  <2>3. DiskOK(disk') /\ plugins' \in Seq(PluginType) /\ life' \in Lives /\ life' # "gone"
    BY <1>0, <1>1, <1>2, <1>6
  <2>4. TypeOK'
    BY <1>6, <2>1, <2>3, TypeFrom
  <2>5. JobShape' /\ NotTooMany' /\ \A p: ~HandedOut(p)'
    BY <1>2, <2>1, <2>3
       DEF JobShape, NotTooMany, HandedOut, Validating, Loading, MutexFree
  <2>6. ListedOnce'
    BY <1>0, <2>1, <2>2 DEF ListedOnce, Loading
  <2>7. EachHandleDue'
    BY <1>0, <1>4, <1>6, <2>2, <2>5, SameHandles DEF EachHandleDue, Due
  <2>8. QED
    BY <2>4, <2>5, <2>6, <2>7 DEF BaseInv
<1>7. CASE UnloadShutdown
  <2>1. ToolsOf(Victim) \in Seq(Names)
    <3>1. plugins[Position(Victim)] \in PluginType
      BY <1>0, <1>2, LoadedPosition
    <3>2. QED
      BY <3>1 DEF ToolsOf, PluginType
  <2>2. ImageOK(image') /\ SameImages /\ CallsOK(calls')
    BY <1>0, <1>3, <1>5, <1>7, ShutdownDef DEF UnloadShutdown
  <2>3. /\ job' = [job EXCEPT !.phase = "unregister", !.names = ToolsOf(Victim)]
        /\ UNCHANGED plugins /\ ToolsOK(tools')
    BY <1>0, <1>7 DEF UnloadShutdown
  <2>4. QED
    BY <1>6, <2>1, <2>2, <2>3
<1>8. CASE UnloadUnregister
  <2>1. Head(job.names) \in Names /\ Tail(job.names) \in Seq(Names)
    BY <1>2, <1>8 DEF UnloadUnregister
  <2>2. ToolsOK(tools') /\ CallsOK(calls')
    BY <1>0, <1>8, <2>1, UnregisterDef DEF UnloadUnregister
  <2>3. job' = [job EXCEPT !.phase = "unregister", !.names = Tail(job.names)]
    BY <1>0, <1>8 DEF UnloadUnregister, JobType
  <2>4. SameImages /\ ImageOK(image') /\ UNCHANGED plugins
    BY <1>0, <1>8 DEF UnloadUnregister, SameImages
  <2>5. QED
    BY <1>6, <2>1, <2>2, <2>3, <2>4
<1>9. CASE UnloadClose
  <2>1. DlClose(v) /\ plugins' = Without(v) /\ Loaded(v) /\ UNCHANGED tools
    BY <1>2, <1>3, <1>9 DEF UnloadClose
  <2>2. /\ ImageOK(image') /\ CallsOK(calls')
        /\ HandlesOf(v)' = HandlesOf(v) - 1
        /\ \A q \in Files \ {v}: HandlesOf(q)' = HandlesOf(q)
    BY <1>0, <1>5, <2>1, CloseDef
  <2>3. /\ plugins' \in Seq(PluginType) /\ PathsOnce'
        /\ \A q: Loaded(q)' <=> Loaded(q) /\ q # v
    BY <1>0, <2>1, WithoutDef
  <2>4. \A p \in Files: HandlesOf(p)' = IF Loaded(p)' THEN 1 ELSE 0
    BY <1>0, <1>4, <2>1, <2>2, <2>3 DEF EachHandleDue, Due
  <2>5. PICK rest \in Seq(Files): rest = Tail(job.victims)
    BY <1>2
  <2>6. Victims(rest)'
    <3>1. /\ 1 \in DOMAIN job.victims /\ v = job.victims[1]
          /\ \A i \in DOMAIN rest:
               i + 1 \in DOMAIN job.victims /\ rest[i] = job.victims[i + 1] /\ i + 1 # 1
      BY <1>2, <1>3, <2>5 DEF Victim
    <3>2. \A i \in DOMAIN rest: Loaded(rest[i]) /\ rest[i] # v
      BY <1>0, <3>1 DEF ListedOnce
    <3>3. \A i, j \in DOMAIN rest: rest[i] = rest[j] => i = j
      <4>1. SUFFICES ASSUME NEW i \in DOMAIN rest, NEW j \in DOMAIN rest, rest[i] = rest[j]
                     PROVE  i = j
        OBVIOUS
      <4>2. i + 1 = j + 1
        BY <1>0, <3>1, <4>1 DEF ListedOnce
      <4>3. i \in Int /\ j \in Int
        OBVIOUS
      <4>4. QED
        BY <4>2, <4>3
    <3>4. QED
      BY <2>3, <3>2, <3>3 DEF Victims
  <2>7. /\ job' = Remaining(<<>>, rest, job.entries) /\ ToolsOK(tools')
        /\ DiskOK(disk') /\ life' \in Lives \ {"gone"}
    BY <1>0, <1>1, <1>2, <1>9, <2>1, <2>5 DEF UnloadClose
  <2>8. QED
    BY <1>0, <1>2, <2>2, <2>3, <2>4, <2>6, <2>7, FreshBase
<1>10. QED
  BY <1>7, <1>8, <1>9 DEF Unload

LEMMA LoadBase == ASSUME BaseInv, Load PROVE BaseInv'
<1>0. /\ TypeOK /\ ListedOnce /\ PathsOnce /\ EachHandleDue /\ JobShape
      /\ ToolsOK(tools) /\ CallsOK(calls) /\ DiskOK(disk) /\ ImageOK(image)
      /\ plugins \in Seq(PluginType) /\ <<>> \in Seq(Files) /\ <<>> \in Seq(Names)
      /\ job \in JobType /\ life \in Lives
  BY TypeParts DEF BaseInv, ListedOnce
<1>1. UNCHANGED <<disk, life>> /\ job.phase \in Loading
  BY DEF Load, LoadSkipped, LoadOpen, LoadInit, HostRegisterTool, RegisterFails,
         LoadDone, LoadFailed, Loading
<1>2. /\ Entry \in Files /\ Tail(job.entries) \in Seq(Files)
      /\ job.todo = <<>> /\ job.victims = <<>> /\ job.entries # <<>> /\ life # "gone"
      /\ job.names \in Seq(Names)
  BY <1>0, <1>1, Hands DEF JobType, JobShape, Loading, MutexFree
<1>3. PICK e \in Files: e = Entry
  BY <1>2
<1>4. /\ DiskOK(disk') /\ life' \in Lives /\ life' # "gone"
      /\ Victims(<<>>)'
  BY <1>0, <1>1, <1>2 DEF Victims
\* The load goes on with a library in hand.
<1>5. ASSUME NEW phase \in {"init", "register", "failed"}, NEW names \in Seq(Names),
             job' = [job EXCEPT !.phase = phase, !.names = names],
             phase = "init" => names = <<>>,
             phase = "register" => Len(names) <= Len(image'[e].lib.tools),
             UNCHANGED plugins, ~Loaded(e), ToolsOK(tools'), CallsOK(calls'),
             ImageOK(image'),
             \A p \in Files: HandlesOf(p)' =
               (IF Loaded(p) THEN 1 ELSE 0) + (IF p = e THEN 1 ELSE 0)
      PROVE  BaseInv'
  <2>1. /\ job' \in JobType /\ job'.phase = phase /\ job'.names = names
        /\ UNCHANGED <<job.todo, job.victims, job.entries>> /\ Entry' = Entry
    <3>1. phase \in Phases
      BY <1>5 DEF Phases, Loading
    <3>2. QED
      BY <1>5, <3>1, SameFiles
  <2>2. PathsOnce' /\ \A p: Loaded(p)' <=> Loaded(p)
    BY <1>0, <1>5 DEF PathsOnce, Loaded
  <2>3. TypeOK'
    BY <1>0, <1>4, <1>5, <2>1, TypeFrom
  <2>4. JobShape' /\ NotTooMany'
    BY <1>2, <1>3, <1>4, <1>5, <2>1
       DEF JobShape, NotTooMany, Validating, Loading, MutexFree
  <2>5. ListedOnce'
    BY <1>0, <1>2, <1>3, <1>5, <2>1, <2>2 DEF ListedOnce, Loading
  <2>6. \A p: HandedOut(p)' <=> p = e
    BY <1>3, <1>5, <2>1 DEF HandedOut, Validating, Loading
  <2>7. EachHandleDue'
    BY <1>5, <2>2, <2>6 DEF EachHandleDue, Due
  <2>8. QED
    BY <2>3, <2>4, <2>5, <2>7 DEF BaseInv
\* What is in hand once it is open.
<1>6. ASSUME job.phase \in {"init", "register", "failed"}
      PROVE  /\ e \in DOMAIN image /\ ~Loaded(e) /\ image[e].handles = 1
             /\ \A p: HandedOut(p) <=> p = e
  BY <1>3, <1>6, Hands, InHand
<1>7. ASSUME job.phase \in {"init", "register", "failed"}, SameImages
      PROVE  \A p \in Files: HandlesOf(p)' =
               (IF Loaded(p) THEN 1 ELSE 0) + (IF p = e THEN 1 ELSE 0)
  BY <1>0, <1>6, <1>7, SameHandles DEF EachHandleDue, Due
<1>8. CASE LoadSkipped
  <2>1. /\ job' = Remaining(<<>>, <<>>, Tail(job.entries))
        /\ UNCHANGED <<tools, calls, image, plugins>> /\ job.phase = "load"
    BY <1>8 DEF LoadSkipped, NextEntry
  <2>2. \A p: ~HandedOut(p)
    BY <2>1, Hands
  <2>3. \A p \in Files: HandlesOf(p)' = IF Loaded(p)' THEN 1 ELSE 0
    BY <1>0, <2>1, <2>2 DEF EachHandleDue, Due, HandlesOf, Loaded
  <2>4. PathsOnce'
    BY <1>0, <2>1 DEF PathsOnce
  <2>5. QED
    BY <1>0, <1>2, <1>4, <2>1, <2>3, <2>4, FreshBase
<1>9. CASE LoadOpen
  <2>1. job.phase = "load" /\ ~Loaded(e) /\ CanOpen(e) /\ DlOpen(e)
    BY <1>0, <1>3, <1>9, PathsDef DEF LoadOpen
  <2>2. \A p: ~HandedOut(p)
    BY <2>1, Hands
  <2>3. /\ ImageOK(image') /\ HandlesOf(e)' = HandlesOf(e) + 1
        /\ \A q \in Files \ {e}: HandlesOf(q)' = HandlesOf(q)
    BY <1>0, <2>1, OpenDef
  <2>4. \A p \in Files: HandlesOf(p)' =
          (IF Loaded(p) THEN 1 ELSE 0) + (IF p = e THEN 1 ELSE 0)
    BY <1>0, <2>2, <2>3 DEF EachHandleDue, Due
  <2>5. job.names = <<>> /\ job' = [job EXCEPT !.phase = "init", !.names = job.names]
    <3>1. "init" \in Phases
      BY DEF Phases, Loading
    <3>2. QED
      BY <1>0, <1>9, <2>1, <3>1, ToPhase DEF LoadOpen, JobShape
  <2>6. QED
    BY <1>0, <1>2, <1>5, <1>9, <2>1, <2>3, <2>4, <2>5 DEF LoadOpen
<1>10. CASE LoadInit
  <2>1. job.phase = "init"
    BY <1>10 DEF LoadInit
  <2>2. e \in DOMAIN image /\ ~Loaded(e) /\ job.names = <<>>
    BY <1>0, <1>6, <2>1 DEF JobShape
  <2>3. ImageOK(image') /\ SameImages /\ CallsOK(calls')
    <3>1. CASE UNCHANGED <<image, calls>>
      BY <1>0, <3>1 DEF SameImages
    <3>2. CASE Renewed(e)
      BY <1>0, <2>2, <3>2, RenewedDef
    <3>3. QED
      BY <1>3, <1>10, <3>1, <3>2 DEF LoadInit
  <2>4. PICK phase \in {"register", "failed"}: To(phase)
    BY <1>10 DEF LoadInit
  <2>5. job' = [job EXCEPT !.phase = phase, !.names = job.names]
    <3>1. phase \in Phases
      BY <2>4 DEF Phases, Loading
    <3>2. QED
      BY <2>4, <3>1, ToPhase
  <2>6. Len(job.names) <= Len(image'[e].lib.tools)
    <3>1. image[e].lib \in LibraryType
      BY <1>0, <2>2, LibrariesAreRecords DEF ImageOK, ImageType, LibraryType
    <3>2. QED
      BY <2>2, <2>3, <3>1 DEF SameImages, LibraryType
  <2>7. QED
    BY <1>0, <1>2, <1>5, <1>7, <1>10, <2>1, <2>2, <2>3, <2>5, <2>6 DEF LoadInit
<1>11. CASE HostRegisterTool
  <2>1. /\ job.phase = "register" /\ e \in DOMAIN image /\ ~Loaded(e)
        /\ UNCHANGED <<calls, image, plugins>>
    BY <1>6, <1>11 DEF HostRegisterTool
  <2>2. image[e].lib.tools \in Seq(Names)
    BY <1>0, <2>1, LibrariesAreRecords DEF ImageOK, ImageType
  <2>3. Len(job.names) <= Len(image[e].lib.tools) /\ Len(job.names) # Len(image[e].lib.tools)
    BY <1>3, <1>11, <2>1 DEF BaseInv, NotTooMany, HostRegisterTool, AllRegistered
  <2>4. Len(job.names) + 1 \in 1 .. Len(image[e].lib.tools)
    BY <1>2, <2>2, <2>3
  <2>5. PICK n \in Names: n = Wanted
    BY <1>3, <2>2, <2>4 DEF Wanted
  <2>6. tools' = With(tools, n, e)
    BY <1>3, <1>11, <2>5 DEF HostRegisterTool, RegisterTool
  <2>7. ToolsOK(tools')
    BY <1>0, <2>6, OwnersAreFilesAndServer DEF ToolsOK, With
  <2>8. /\ Append(job.names, n) \in Seq(Names)
        /\ Len(Append(job.names, n)) = Len(job.names) + 1
    BY <1>2
  <2>9. job' = [job EXCEPT !.phase = "register", !.names = Append(job.names, n)]
    BY <1>0, <1>11, <2>1, <2>5 DEF HostRegisterTool, JobType
  <2>10. Len(Append(job.names, n)) <= Len(image'[e].lib.tools)
    BY <2>1, <2>4, <2>8
  <2>11. CallsOK(calls') /\ ImageOK(image') /\ SameImages
    BY <1>0, <2>1 DEF SameImages
  <2>12. QED
    BY <1>5, <1>7, <2>1, <2>7, <2>8, <2>9, <2>10, <2>11
<1>12. CASE RegisterFails
  <2>1. /\ job.phase = "register" /\ e \in DOMAIN image /\ ~Loaded(e)
        /\ UNCHANGED <<tools, plugins>>
    BY <1>6, <1>12 DEF RegisterFails
  <2>2. ImageOK(image') /\ SameImages /\ CallsOK(calls')
    BY <1>0, <1>3, <1>12, <2>1, ShutdownDef DEF RegisterFails
  <2>3. job' = [job EXCEPT !.phase = "failed", !.names = job.names]
    <3>1. "failed" \in Phases
      BY DEF Phases, Loading
    <3>2. QED
      BY <1>12, <3>1, ToPhase DEF RegisterFails
  <2>4. QED
    BY <1>0, <1>2, <1>5, <1>7, <2>1, <2>2, <2>3
<1>13. CASE LoadDone
  <2>1. /\ job.phase = "register" /\ e \in DOMAIN image /\ ~Loaded(e)
        /\ \A p: HandedOut(p) <=> p = e
        /\ UNCHANGED <<tools, calls, image>>
    BY <1>6, <1>13 DEF LoadDone
  <2>2. PICK new \in PluginType: new = [path |-> e, names |-> job.names]
    <3>1. [path |-> e, names |-> job.names] \in PluginType
      BY <1>2 DEF PluginType
    <3>2. QED
      BY <3>1
  <2>3. new.path = e /\ plugins' = Append(plugins, new)
    BY <1>3, <1>13, <2>2 DEF LoadDone
  <2>4. /\ plugins' \in Seq(PluginType) /\ PathsOnce'
        /\ \A q: Loaded(q)' <=> Loaded(q) \/ q = e
    BY <1>0, <2>1, <2>3, AppendedDef
  <2>5. \A p \in Files: HandlesOf(p)' = IF Loaded(p)' THEN 1 ELSE 0
    BY <1>0, <2>1, <2>4 DEF EachHandleDue, Due, HandlesOf
  <2>6. job' = Remaining(<<>>, <<>>, Tail(job.entries))
    BY <1>13 DEF LoadDone, NextEntry
  <2>7. QED
    BY <1>0, <1>2, <1>4, <2>1, <2>4, <2>5, <2>6, FreshBase
<1>14. CASE LoadFailed
  <2>1. /\ job.phase = "failed" /\ e \in DOMAIN image /\ ~Loaded(e)
        /\ \A p: HandedOut(p) <=> p = e
        /\ UNCHANGED <<tools, plugins>> /\ ShutdownAndClose(e)
        /\ job' = Remaining(<<>>, <<>>, Tail(job.entries))
    BY <1>3, <1>6, <1>14 DEF LoadFailed, NextEntry
  <2>2. /\ ImageOK(image') /\ CallsOK(calls')
        /\ HandlesOf(e)' = HandlesOf(e) - 1
        /\ \A q \in Files \ {e}: HandlesOf(q)' = HandlesOf(q)
    BY <1>0, <2>1, CloseDef
  <2>3. PathsOnce' /\ \A p: Loaded(p)' <=> Loaded(p)
    BY <1>0, <2>1 DEF PathsOnce, Loaded
  <2>4. \A p \in Files: HandlesOf(p)' = IF Loaded(p)' THEN 1 ELSE 0
    BY <1>0, <2>1, <2>2, <2>3 DEF EachHandleDue, Due
  <2>5. QED
    BY <1>0, <1>2, <1>4, <2>1, <2>2, <2>3, <2>4, FreshBase
<1>15. QED
  BY <1>8, <1>9, <1>10, <1>11, <1>12, <1>13, <1>14 DEF Load


\* Steps that leave the libraries, plugins_ and the job alone.
LEMMA UntouchedBase ==
  ASSUME BaseInv, UNCHANGED <<image, plugins, job, life>>, ToolsOK(tools'),
         CallsOK(calls'), DiskOK(disk')
  PROVE  BaseInv'
<1>1. TypeOK'
  <2>1. ImageOK(image) /\ plugins \in Seq(PluginType) /\ job \in JobType /\ life \in Lives
    BY TypeParts DEF BaseInv
  <2>2. QED
    BY <2>1, TypeFrom
<1>2. JobShape' /\ ListedOnce' /\ EachHandleDue' /\ NotTooMany'
  BY DEF BaseInv, JobShape, MutexFree, ListedOnce, PathsOnce, Loaded, Entry, EachHandleDue,
         HandlesOf, Due, HandedOut, Validated, NotTooMany
<1>3. QED
  BY <1>1, <1>2 DEF BaseInv

LEMMA CallingBase == ASSUME BaseInv, Calling PROVE BaseInv'
<1>1. /\ ToolsOK(tools) /\ CallsOK(calls) /\ DiskOK(disk)
      /\ UNCHANGED <<disk, image, plugins, job, life>>
  BY TypeParts DEF BaseInv, Calling
<1>2. ASSUME NEW c \in Callers, NEW n \in Names, CallTool(c, n)
      PROVE  ToolsOK(tools') /\ CallsOK(calls')
  <2>1. PICK new \in Call: new = [name |-> n, owner |-> tools[n], lost |-> {}]
    <3>1. [name |-> n, owner |-> tools[n], lost |-> {}] \in Call
      BY <1>1, <1>2 DEF Call, CallTool, Registered, ToolsOK
    <3>2. QED
      BY <3>1
  <2>2. calls' = With(calls, c, new) /\ UNCHANGED tools
    BY <1>2, <2>1 DEF CallTool
  <2>3. QED
    BY <1>1, <2>2 DEF With, CallsOK
<1>3. ASSUME NEW c \in Callers, CallReturns(c)
      PROVE  ToolsOK(tools') /\ CallsOK(calls')
  BY <1>1, <1>3 DEF CallReturns, CallsOK, Restrict
<1>4. ToolsOK(tools') /\ CallsOK(calls')
  BY <1>2, <1>3 DEF Calling
<1>5. QED
  BY <1>1, <1>4, UntouchedBase

LEMMA DestroyBase == ASSUME BaseInv, Destroy PROVE BaseInv'
<1>0. /\ TypeOK /\ PathsOnce /\ EachHandleDue /\ JobShape /\ CallsOK(calls)
      /\ DiskOK(disk) /\ job \in JobType
  BY TypeParts DEF BaseInv, ListedOnce
<1>1. /\ MutexFree /\ life' = "gone" /\ tools' = <<>> /\ plugins' = <<>>
      /\ UNCHANGED <<calls, disk, job>>
  BY DEF Destroy
<1>2. \A p: ~HandedOut(p)
  BY <1>1, Hands DEF MutexFree
<1>3. {q \in DOMAIN image: image[q].handles > Kept(q)} = {}
  <2>1. SUFFICES ASSUME NEW q \in DOMAIN image PROVE ~(image[q].handles > Kept(q))
    OBVIOUS
  <2>2. q \in Files
    BY <1>0, TypeParts DEF ImageOK
  <2>3. image[q].handles = IF Loaded(q) THEN 1 ELSE 0
    BY <1>0, <1>2, <2>2 DEF EachHandleDue, HandlesOf, Due
  <2>4. Kept(q) = IF Loaded(q) THEN 1 ELSE 0
    BY <1>0, KeptDef
  <2>5. QED
    BY <2>3, <2>4
<1>4. DOMAIN image' = {}
  BY <1>3 DEF Destroy
<1>5. ImageOK(image') /\ ToolsOK(tools') /\ plugins' \in Seq(PluginType) /\ life' \in Lives
  BY <1>1, <1>4 DEF ImageOK, ToolsOK, Lives
<1>6. TypeOK'
  BY <1>0, <1>1, <1>5, TypeFrom
<1>7. \A p: ~Loaded(p)'
  BY <1>1 DEF Loaded
<1>8. JobShape' /\ NotTooMany' /\ \A p: ~HandedOut(p)'
  BY <1>0, <1>1
     DEF JobShape, MutexFree, NotTooMany, HandedOut, Validating, Loading
<1>9. ListedOnce'
  BY <1>0, <1>1, <1>7 DEF ListedOnce, PathsOnce, JobShape, MutexFree
<1>10. EachHandleDue'
  BY <1>4, <1>7, <1>8 DEF EachHandleDue, Due, HandlesOf
<1>11. QED
  BY <1>6, <1>8, <1>9, <1>10 DEF BaseInv

LEMMA InstallBase == ASSUME BaseInv, NEW p \in Files, Install(p) PROVE BaseInv'
<1>1. /\ ToolsOK(tools) /\ CallsOK(calls) /\ DiskOK(disk)
      /\ UNCHANGED <<tools, calls, image, plugins, job, life>>
  BY TypeParts DEF BaseInv, Install
<1>2. DiskOK(disk')
  BY <1>1 DEF Install, DiskOK, With, Restrict
<1>3. QED
  BY <1>1, <1>2, UntouchedBase

LEMMA StutterBase == ASSUME BaseInv, UNCHANGED vars PROVE BaseInv'
<1>1. ToolsOK(tools) /\ CallsOK(calls) /\ DiskOK(disk)
  BY TypeParts DEF BaseInv
<1>2. UNCHANGED <<tools, calls, disk, image, plugins, job, life>>
  BY DEF vars
<1>3. QED
  BY <1>1, <1>2, UntouchedBase

LEMMA InitBase == ASSUME Init PROVE BaseInv
<1>1. /\ plugins = <<>> /\ DOMAIN image = {} /\ image = <<>> /\ calls = <<>>
      /\ life = "starting" /\ job = Remaining(<<>>, <<>>, <<>>)
      /\ tools = [n \in Builtins |-> Server]
  BY DEF Init, Idle
<1>2. /\ job \in JobType /\ job.phase = "idle" /\ job.names = <<>>
      /\ job.victims = <<>>
  <2>1. PICK none \in Seq(Files): none = <<>>
    <3>1. <<>> \in Seq(Files)
      OBVIOUS
    <3>2. QED
      BY <3>1
  <2>2. job = Remaining(none, none, none)
    BY <1>1, <2>1
  <2>3. /\ job \in JobType /\ job.names = <<>> /\ job.victims = none
        /\ job.phase \in {"validate", "unload", "load", "idle"}
        /\ job.phase = "validate" <=> none # <<>>
        /\ job.phase = "unload" <=> none = <<>> /\ none # <<>>
        /\ job.phase = "load" <=> none = <<>> /\ none = <<>> /\ none # <<>>
    BY <2>2, RemainingDef
  <2>4. QED
    BY <2>1, <2>3
<1>3. TypeOK
  <2>1. ToolsOK(tools)
    BY <1>1, BuiltinsAreNames, OwnersAreFilesAndServer DEF ToolsOK
  <2>2. CallsOK(calls) /\ ImageOK(image) /\ plugins \in Seq(PluginType) /\ life \in Lives
    BY <1>1 DEF CallsOK, ImageOK, Lives
  <2>3. DiskOK(disk)
    <3>1. PICK present \in SUBSET Files: disk \in [present -> Libraries]
      BY DEF Init
    <3>2. QED
      BY <3>1 DEF DiskOK
  <2>4. QED
    BY <1>2, <2>1, <2>2, <2>3
       DEF TypeOK, ToolManagerTypeOK, ToolsOK, CallsOK, DiskOK, ImageOK, ImageType,
           PluginType, JobType
<1>4. \A p: ~Loaded(p) /\ ~HandedOut(p)
  BY <1>1, <1>2 DEF Loaded, HandedOut, Validating, Loading
<1>5. JobShape /\ ListedOnce /\ NotTooMany
  BY <1>1, <1>2
     DEF JobShape, MutexFree, ListedOnce, PathsOnce, NotTooMany, Validating, Loading
<1>6. EachHandleDue
  BY <1>1, <1>4 DEF EachHandleDue, HandlesOf, Due
<1>7. QED
  BY <1>3, <1>5, <1>6 DEF BaseInv

LEMMA BaseStep == ASSUME BaseInv, [Next]_vars PROVE BaseInv'
<1>1. CASE Next
  BY <1>1, OperationBase, ValidateBase, UnloadBase, LoadBase, DestroyBase, CallingBase,
     InstallBase, StutterBase DEF Next, Gone
<1>2. CASE UNCHANGED vars
  BY <1>2, StutterBase
<1>3. QED
  BY <1>1, <1>2

LEMMA BaseInvHolds == Spec => []BaseInv
<1>1. Init => BaseInv
  BY InitBase
<1>2. BaseInv /\ [Next]_vars => BaseInv'
  BY BaseStep
<1>3. QED
  BY <1>1, <1>2, PTL DEF Spec

\* The registry, the calls, the mapped libraries, plugins_ and the job keep
\* their types: indices stay within the lists of names and files, and no
\* handle count reaches zero while its library is still mapped.
THEOREM TypeCorrect == Spec => []TypeOK
<1>1. BaseInv => TypeOK
  BY DEF BaseInv
<1>2. QED
  BY <1>1, BaseInvHolds, PTL

\* Every handle dlopen gave out is kept by one entry of plugins_ or is in the
\* hands of the step under way, on every path of validatePlugin, loadPlugin,
\* unloadPlugin and the destructor: none leaks, none is closed twice.
THEOREM HandlesAreBalanced == Spec => []HandlesBalanced
<1>1. BaseInv => HandlesBalanced
  <2>1. SUFFICES ASSUME BaseInv, NEW p \in Files
                 PROVE  /\ Kept(p) \leq 1
                        /\ (IF p \in DOMAIN image THEN image[p].handles ELSE 0)
                             = Kept(p) + (IF HandedOut(p) THEN 1 ELSE 0)
    BY DEF HandlesBalanced
  <2>2. Kept(p) = IF Loaded(p) THEN 1 ELSE 0
    BY <2>1, KeptDef DEF BaseInv, ListedOnce
  <2>3. HandlesOf(p) = Due(p)
    BY <2>1 DEF BaseInv, EachHandleDue
  <2>4. QED
    BY <2>2, <2>3 DEF HandlesOf, Due
<1>2. QED
  BY <1>1, BaseInvHolds, PTL

\* loadPlugin activates what the file holds: its path is not in plugins_, so
\* neither plugins_ nor a validation has a handle on it, and dlopen maps anew.
THEOREM LoadActivatesTheFile == Spec => LoadsTheFile
<1>1. ASSUME BaseInv, [Next]_vars
      PROVE  [job.phase = "load" /\ job'.phase = "init"
                => image'[Entry].lib = disk[Entry]]_vars
  <2>1. SUFFICES ASSUME Next, job.phase = "load", job'.phase = "init"
                 PROVE  image'[Entry].lib = disk[Entry]
    BY <1>1
  <2>2. LoadOpen
    <3>1. ~LoadSkipped
      BY <1>1, <2>1 DEF LoadSkipped, NextEntry, Remaining, Job
    <3>2. Load
      <4>1. job' # job
        BY <2>1
      <4>2. QED
        BY <2>1, <4>1
           DEF Next, Operation, LoadFromDirectory, ReloadFromDirectory, UnloadAll,
               ReloadPlugin, MutexFree, Validate, ValidateOpen, ValidateCannotOpen,
               ActivateOnTrial, ValidateClose, Unload, UnloadShutdown,
               UnloadUnregister, UnloadClose, Destroy, Calling, Gone, vars, Install
    <3>3. QED
      BY <2>1, <3>1, <3>2
         DEF Load, LoadInit, HostRegisterTool, RegisterFails, LoadDone, LoadFailed
  <2>3. PICK e \in Files: e = Entry
    BY <1>1, <2>1, Hands DEF Loading
  <2>4. ~Loaded(e) /\ ~HandedOut(e)
    BY <1>1, <2>1, <2>2, <2>3, PathsDef, Hands DEF LoadOpen, BaseInv
  <2>5. e \notin DOMAIN image
    <3>1. HandlesOf(e) = 0
      BY <1>1, <2>4 DEF BaseInv, EachHandleDue, Due
    <3>2. ImageOK(image)
      BY <1>1, TypeParts DEF BaseInv
    <3>3. QED
      BY <3>1, <3>2 DEF HandlesOf, ImageOK, ImageType
  <2>6. image'[e].lib = disk[e]
    BY <1>1, <2>2, <2>3, <2>5, OpenDef DEF LoadOpen, BaseInv
  <2>7. QED
    BY <2>3, <2>6
<1>2. QED
  BY <1>1, BaseInvHolds, PTL DEF Spec, LoadsTheFile

------------------------------------------------------------------------------
(* The names of the server's own tools.                                       *)

\* The actions that do not go on with the names at hand leave them or drop them.
LEMMA NamesAfter ==
  ASSUME BaseInv, [Next]_vars
  PROVE  \/ job'.names = job.names \/ job'.names = <<>>
         \/ UnloadShutdown \/ UnloadUnregister \/ HostRegisterTool
<1>1. job \in JobType
  BY TypeParts DEF BaseInv
<1>2. ASSUME NEW phase, To(phase) PROVE job'.names = job.names
  BY <1>1, <1>2 DEF To, JobType
<1>3. ASSUME NEW todo, NEW victims, NEW entries, job' = Remaining(todo, victims, entries)
      PROVE  job'.names = <<>>
  BY <1>3 DEF Remaining, Job
<1>4. CASE UNCHANGED job
  BY <1>4
<1>5. CASE Operation
  BY <1>3, <1>5 DEF Operation, LoadFromDirectory, ReloadFromDirectory, UnloadAll, ReloadPlugin
<1>6. CASE Validate
  BY <1>2, <1>3, <1>6 DEF Validate, ValidateOpen, ValidateCannotOpen, ActivateOnTrial,
     ValidateClose, Abort, Idle
<1>7. CASE UnloadClose
  BY <1>3, <1>7 DEF UnloadClose
<1>8. CASE Load /\ ~HostRegisterTool
  BY <1>2, <1>3, <1>8 DEF Load, LoadSkipped, LoadOpen, LoadInit, RegisterFails, LoadDone,
     LoadFailed, NextEntry
<1>9. QED
  BY <1>4, <1>5, <1>6, <1>7, <1>8
     DEF Next, Unload, Destroy, Calling, Gone, Install, vars

\* Only these actions change plugins_ or tools_.
LEMMA WhatChanges ==
  ASSUME [Next]_vars
  PROVE  /\ UNCHANGED plugins \/ UnloadClose \/ LoadDone \/ Destroy
         /\ UNCHANGED tools \/ UnloadUnregister \/ HostRegisterTool \/ Destroy
         /\ life' # "gone" => life # "gone"
         /\ Destroy => life' = "gone"
<1> USE DEF Next, Operation, LoadFromDirectory, ReloadFromDirectory, UnloadAll, ReloadPlugin,
     Validate, ValidateOpen, ValidateCannotOpen, ActivateOnTrial, ValidateClose,
     Unload, UnloadShutdown, UnloadUnregister, UnloadClose,
     Load, LoadSkipped, LoadOpen, LoadInit, HostRegisterTool, RegisterFails, LoadDone,
     LoadFailed, Destroy, Calling, CallTool, CallReturns, Gone, Install, vars
<1>1. UNCHANGED plugins \/ UnloadClose \/ LoadDone \/ Destroy
  OBVIOUS
<1>2. UNCHANGED tools \/ UnloadUnregister \/ HostRegisterTool \/ Destroy
  OBVIOUS
<1>3. life' # "gone" => life # "gone"
  OBVIOUS
<1>4. QED
  BY <1>1, <1>2, <1>3

\* The next tool of a library that has more to register.
LEMMA WantedDef ==
  ASSUME BaseInv, job.phase = "register", ~AllRegistered
  PROVE  /\ Wanted \in Names /\ job.names \in Seq(Names)
         /\ Entry \in DOMAIN image /\ image[Entry].lib \in Libraries
         /\ image[Entry].lib.tools \in Seq(Names)
         /\ Len(job.names) < Len(image[Entry].lib.tools)
<1>1. Entry \in Files /\ HandedOut(Entry)
  BY Hands DEF Loading
<1>2. /\ ImageOK(image) /\ job.names \in Seq(Names)
      /\ Len(job.names) <= Len(image[Entry].lib.tools)
  BY TypeParts DEF BaseInv, NotTooMany, JobType
<1>3. Entry \in DOMAIN image /\ image[Entry].lib \in Libraries
  <2>1. PICK e \in Files: e = Entry
    BY <1>1
  <2>2. HandedOut(e)
    BY <1>1, <2>1
  <2>3. QED
    BY <1>2, <2>1, <2>2, InHand DEF ImageOK, ImageType
<1>4. image[Entry].lib.tools \in Seq(Names)
  BY <1>3, LibrariesAreRecords
<1>5. Len(job.names) + 1 \in 1 .. Len(image[Entry].lib.tools)
  BY <1>2, <1>4 DEF AllRegistered
<1>6. QED
  BY <1>2, <1>3, <1>4, <1>5 DEF Wanted

LEMMA RangeOfAppend ==
  ASSUME NEW S, NEW s \in Seq(S), NEW e \in S
  PROVE  Range(Append(s, e)) = Range(s) \cup {e}
<1>1. /\ DOMAIN Append(s, e) = DOMAIN s \cup {Len(s) + 1}
      /\ Append(s, e)[Len(s) + 1] = e
      /\ \A i \in DOMAIN s: Append(s, e)[i] = s[i]
  OBVIOUS
<1>2. QED
  BY <1>1 DEF Range

LEMMA BuiltinsStep ==
  ASSUME BaseInv, BuiltinsInv, [Next]_vars
  PROVE  BuiltinsInv'
<1>1. SUFFICES ASSUME life' # "gone"
               PROVE  /\ \A n \in Builtins: n \in DOMAIN tools' /\ tools'[n] = Server
                      /\ Range(job'.names) \cap Builtins = {}
                      /\ \A i \in DOMAIN plugins':
                           Range(plugins'[i].names) \cap Builtins = {}
  BY DEF BuiltinsInv, BuiltinsStay, RecordedAreOthers, Registered
<1>2. /\ life # "gone"
      /\ \A n \in Builtins: n \in DOMAIN tools /\ tools[n] = Server
      /\ Range(job.names) \cap Builtins = {}
      /\ \A i \in DOMAIN plugins: Range(plugins[i].names) \cap Builtins = {}
  BY <1>1, WhatChanges DEF BuiltinsInv, BuiltinsStay, RecordedAreOthers, Registered
<1>3. /\ UNCHANGED plugins \/ UnloadClose \/ LoadDone
      /\ UNCHANGED tools \/ UnloadUnregister \/ HostRegisterTool
  BY <1>1, WhatChanges
<1>4. TypeOK /\ PathsOnce /\ job \in JobType /\ job.names \in Seq(Names)
  BY TypeParts DEF BaseInv, ListedOnce, JobType
<1>5. ASSUME UnloadUnregister
      PROVE  /\ Head(job.names) \in Range(job.names)
             /\ job'.names = Tail(job.names)
             /\ Range(Tail(job.names)) \subseteq Range(job.names)
  <2>1. job.names # <<>> /\ job' = [job EXCEPT !.names = Tail(@)]
    BY <1>5 DEF UnloadUnregister
  <2>2. QED
    BY <1>4, <2>1 DEF JobType, Range
<1>6. ASSUME HostRegisterTool
      PROVE  /\ Wanted \notin Builtins
             /\ \A n \in DOMAIN tools: n \in DOMAIN tools' /\ tools'[n] = tools[n]
             /\ Range(job'.names) = Range(job.names) \cup {Wanted}
  <2>1. Wanted \notin DOMAIN tools /\ tools' = With(tools, Wanted, Entry)
    BY <1>6 DEF HostRegisterTool, RegisterTool, Registered
  <2>2. job'.names = Append(job.names, Wanted)
    BY <1>4, <1>6 DEF HostRegisterTool, JobType
  <2>3. Range(Append(job.names, Wanted)) = Range(job.names) \cup {Wanted}
    BY <1>6, WantedDef, RangeOfAppend DEF HostRegisterTool
  <2>4. QED
    BY <1>2, <2>1, <2>2, <2>3 DEF With
<1>7. \A n \in Builtins: n \in DOMAIN tools' /\ tools'[n] = Server
  <2>1. CASE UnloadUnregister
    BY <1>2, <1>5, <2>1 DEF UnloadUnregister, UnregisterTool, Restrict
  <2>2. QED
    BY <1>2, <1>3, <1>6, <2>1
<1>8. Range(job'.names) \cap Builtins = {}
  <2>1. CASE UnloadShutdown
    <3>1. PICK i \in DOMAIN plugins: ToolsOf(Victim) = plugins[i].names
      <4>1. Loaded(Victim)
        BY <2>1, Hands DEF UnloadShutdown
      <4>2. QED
        BY <4>1, LoadedPosition
    <3>2. job'.names = plugins[i].names
      BY <1>4, <2>1, <3>1 DEF UnloadShutdown, JobType
    <3>3. QED
      BY <1>2, <3>2
  <2>2. CASE job'.names = <<>>
    BY <2>2 DEF Range
  <2>3. QED
    BY <1>2, <1>5, <1>6, <2>1, <2>2, NamesAfter
<1>9. ASSUME NEW i \in DOMAIN plugins'
      PROVE  Range(plugins'[i].names) \cap Builtins = {}
  <2>1. CASE UNCHANGED plugins
    BY <1>2, <1>9, <2>1
  <2>2. CASE UnloadClose
    <3>1. Loaded(Victim) /\ plugins' = Without(Victim)
      BY <2>2, Hands DEF UnloadClose
    <3>2. QED
      BY <1>2, <1>4, <1>9, <3>1, WithoutDef
  <2>3. CASE LoadDone
    <3>1. plugins' = Append(plugins, [path |-> Entry, names |-> job.names])
      BY <2>3 DEF LoadDone
    <3>2. plugins \in Seq(PluginType)
      BY <1>4, TypeParts
    <3>3. plugins'[i].names = job.names \/ \E j \in DOMAIN plugins: plugins'[i] = plugins[j]
      BY <1>9, <3>1, <3>2
    <3>4. QED
      BY <1>2, <3>3
  <2>4. QED
    BY <1>3, <2>1, <2>2, <2>3
<1>10. QED
  BY <1>7, <1>8, <1>9

\* While the server runs, the names of its own tools stay registered to it:
\* the duplicate check keeps plugins from taking one, so no plugin records one
\* and no unload unregisters one.
THEOREM BuiltinsAreKept == Spec => []BuiltinsStay
<1>1. Init => BuiltinsInv
  <2>1. ASSUME Init PROVE BuiltinsInv
    <3>1. /\ tools = [n \in Builtins |-> Server] /\ plugins = <<>> /\ job.names = <<>>
      BY <2>1 DEF Init, Idle, Remaining, Job
    <3>2. QED
      BY <3>1 DEF BuiltinsInv, BuiltinsStay, RecordedAreOthers, Registered, Range
  <2>2. QED
    BY <2>1
<1>2. BaseInv /\ BuiltinsInv /\ [Next]_vars => BuiltinsInv'
  BY BuiltinsStep
<1>3. BuiltinsInv => BuiltinsStay
  BY DEF BuiltinsInv
<1>4. QED
  BY <1>1, <1>2, <1>3, BaseInvHolds, PTL DEF Spec

------------------------------------------------------------------------------
(* The tools of plugins, when each registers one tool at most and does not    *)
(* fail after it.                                                             *)

LEMMA OneLong ==
  ASSUME NEW S, NEW s \in Seq(S), Len(s) <= 1
  PROVE  s # <<>> => Range(s) = {Head(s)} /\ Tail(s) = <<>> /\ Head(s) \in S
<1>1. CASE Len(s) = 1
  <2>1. DOMAIN s = {1} /\ Head(s) = s[1] /\ Head(s) \in S
    BY <1>1
  <2>2. Tail(s) \in Seq(S) /\ Len(Tail(s)) = 0
    BY <1>1
  <2>3. Tail(s) = <<>>
    BY <2>2
  <2>4. QED
    BY <2>1, <2>3 DEF Range
<1>2. CASE Len(s) = 0
  BY <1>2
<1>3. PICK k \in Nat: k = Len(s)
  OBVIOUS
<1>4. Len(s) = 0 \/ Len(s) = 1
  BY <1>3
<1>5. QED
  BY <1>1, <1>2, <1>4

\* A plugin that is not touched keeps its entry, wherever it stands by now.
LEMMA ToolsOfKept ==
  ASSUME PathsOnce, PathsOnce', NEW p, Loaded(p)',
         \A i \in DOMAIN plugins':
           plugins'[i].path = p => \E j \in DOMAIN plugins: plugins'[i] = plugins[j]
  PROVE  Loaded(p) /\ ToolsOf(p)' = ToolsOf(p)
<1>1. PICK i \in DOMAIN plugins': plugins'[i].path = p
  BY DEF Loaded
<1>2. PICK j \in DOMAIN plugins: plugins'[i] = plugins[j]
  BY <1>1
<1>3. ToolsOf(p) = plugins[j].names
  BY <1>1, <1>2, PositionDef
<1>4. (CHOOSE k \in DOMAIN plugins': plugins'[k].path = p) = i
  BY <1>1 DEF PathsOnce
<1>5. ToolsOf(p)' = plugins'[i].names
  BY <1>4 DEF ToolsOf, Position
<1>6. QED
  BY <1>1, <1>2, <1>3, <1>5 DEF Loaded

\* The steps that neither change a registration nor begin or end a time when
\* the names at hand stand for the tools of a plugin.
Quiet ==
  /\ UNCHANGED <<tools, plugins>>
  /\ \/ UNCHANGED job
     \/ {job.phase, job'.phase} \cap {"unregister", "register"} = {}

LEMMA FreshPhase ==
  ASSUME NEW todo, NEW victims, NEW entries, job' = Remaining(todo, victims, entries)
  PROVE  job'.phase \notin {"unregister", "register", "failed"}
<1>1. job'.phase = CASE todo # <<>> -> "validate"
                     [] todo = <<>> /\ victims # <<>> -> "unload"
                     [] todo = <<>> /\ victims = <<>> /\ entries # <<>> -> "load"
                     [] OTHER -> "idle"
  BY DEF Remaining, Job
<1>2. QED
  BY <1>1

LEMMA SteppedOn ==
  ASSUME BaseInv, [Next]_vars
  PROVE  \/ Quiet
         \/ LoadInit /\ job'.phase = "register"
         \/ UnloadShutdown \/ UnloadUnregister \/ UnloadClose
         \/ HostRegisterTool \/ RegisterFails \/ LoadDone \/ Destroy
<1>1. job \in JobType
  BY TypeParts DEF BaseInv
<1>2. ASSUME NEW phase, To(phase) PROVE job'.phase = phase
  BY <1>1, <1>2 DEF To, JobType
<1>3. CASE Operation
  <2>1. job'.phase \notin {"unregister", "register"} /\ MutexFree /\ UNCHANGED <<tools, plugins>>
    BY <1>3, FreshPhase
       DEF Operation, LoadFromDirectory, ReloadFromDirectory, UnloadAll, ReloadPlugin
  <2>2. QED
    BY <2>1 DEF Quiet, MutexFree
<1>4. CASE Validate
  <2>1. /\ job.phase \in Validating /\ UNCHANGED <<tools, plugins>>
        /\ job'.phase \notin {"unregister", "register"}
    <3>1. CASE ValidateOpen
      BY <1>2, <3>1 DEF ValidateOpen, Validating
    <3>2. CASE ValidateCannotOpen
      BY <3>2, FreshPhase DEF ValidateCannotOpen, Abort, Idle, Validating
    <3>3. CASE ActivateOnTrial
      BY <1>2, <3>3 DEF ActivateOnTrial, Validating
    <3>4. CASE ValidateClose
      BY <3>4, FreshPhase DEF ValidateClose, Abort, Idle, Validating
    <3>5. QED
      BY <1>4, <3>1, <3>2, <3>3, <3>4 DEF Validate
  <2>2. QED
    BY <2>1 DEF Quiet, Validating
<1>5. CASE LoadSkipped \/ LoadFailed
  BY <1>5, FreshPhase DEF LoadSkipped, LoadFailed, NextEntry, Quiet
<1>6. CASE LoadOpen
  <2>1. job'.phase = "init"
    BY <1>2, <1>6 DEF LoadOpen
  <2>2. QED
    BY <1>6, <2>1 DEF LoadOpen, Quiet
<1>7. CASE LoadInit
  <2>1. job'.phase \in {"register", "failed"}
    BY <1>2, <1>7 DEF LoadInit
  <2>2. QED
    BY <1>7, <2>1 DEF LoadInit, Quiet
<1>8. CASE Calling \/ Gone \/ (\E p \in Files: Install(p)) \/ UNCHANGED vars
  BY <1>8 DEF Calling, CallTool, CallReturns, Gone, Install, vars, Quiet
<1>9. QED
  BY <1>3, <1>4, <1>5, <1>6, <1>7, <1>8 DEF Next, Unload, Load

\* A plugin whose load has failed had registered nothing, and one that is
\* about to register something has registered nothing yet.
LEMMA NothingYet ==
  ASSUME OneToolEach, BaseInv, job.phase = "register",
         ~AllRegistered \/ RegisterFails
  PROVE  job.names = <<>>
<1>1. /\ job.names \in Seq(Names) /\ image[Entry].lib \in Libraries
      /\ image[Entry].lib.tools \in Seq(Names)
      /\ Len(job.names) <= Len(image[Entry].lib.tools)
  <2>1. Entry \in Files /\ HandedOut(Entry)
    BY Hands DEF Loading
  <2>2. PICK e \in Files: e = Entry /\ HandedOut(e)
    BY <2>1
  <2>3. ImageOK(image) /\ job \in JobType
    BY TypeParts DEF BaseInv
  <2>4. image[e].lib \in Libraries
    BY <2>2, <2>3, InHand DEF ImageOK, ImageType
  <2>5. QED
    BY <2>2, <2>3, <2>4, LibrariesAreRecords DEF BaseInv, NotTooMany, JobType
<1>2. Len(image[Entry].lib.tools) <= 1
  BY <1>1 DEF OneToolEach
<1>3. CASE ~AllRegistered
  BY <1>1, <1>2, <1>3 DEF AllRegistered
<1>4. CASE AllRegistered
  <2>1. image[Entry].lib.tools = <<>>
    BY <1>1, <1>4 DEF RegisterFails, OneToolEach
  <2>2. QED
    BY <1>1, <1>4, <2>1 DEF AllRegistered
<1>5. QED
  BY <1>3, <1>4

LEMMA OneNameStep ==
  ASSUME OneToolEach, BaseInv, OneName, [Next]_vars
  PROVE  OneName'
<1>1. /\ TypeOK /\ PathsOnce /\ job \in JobType /\ job.names \in Seq(Names)
      /\ plugins \in Seq(PluginType) /\ JobShape
  BY TypeParts DEF BaseInv, ListedOnce, JobType
<1>2. Len(<<>>) = 0 /\ Len(job.names) <= 1
  BY DEF OneName
<1>3. Len(job'.names) <= 1
  <2>1. CASE UnloadShutdown
    <3>1. PICK i \in DOMAIN plugins: ToolsOf(Victim) = plugins[i].names
      <4>1. Loaded(Victim)
        BY <2>1, Hands DEF UnloadShutdown
      <4>2. QED
        BY <4>1, LoadedPosition
    <3>2. job'.names = plugins[i].names
      BY <1>1, <2>1, <3>1 DEF UnloadShutdown, JobType
    <3>3. QED
      BY <3>2 DEF OneName
  <2>2. CASE UnloadUnregister
    <3>1. job.names # <<>> /\ job'.names = Tail(job.names)
      BY <1>1, <2>2 DEF UnloadUnregister, JobType
    <3>2. QED
      BY <1>1, <1>2, <3>1
  <2>3. CASE HostRegisterTool
    <3>1. job'.names = Append(job.names, Wanted) /\ job.names = <<>> /\ Wanted \in Names
      BY <1>1, <2>3, NothingYet, WantedDef DEF HostRegisterTool, JobType
    <3>2. QED
      BY <1>1, <3>1
  <2>4. QED
    BY <1>2, <2>1, <2>2, <2>3, NamesAfter
<1>4. ASSUME NEW i \in DOMAIN plugins'
      PROVE  Len(plugins'[i].names) <= 1
  <2>1. CASE UNCHANGED plugins
    BY <1>4, <2>1 DEF OneName
  <2>2. CASE UnloadClose
    <3>1. Loaded(Victim) /\ plugins' = Without(Victim)
      BY <2>2, Hands DEF UnloadClose
    <3>2. QED
      BY <1>1, <1>4, <3>1, WithoutDef DEF OneName
  <2>3. CASE LoadDone
    <3>1. plugins' = Append(plugins, [path |-> Entry, names |-> job.names])
      BY <2>3 DEF LoadDone
    <3>2. plugins'[i].names = job.names \/ \E j \in DOMAIN plugins: plugins'[i] = plugins[j]
      BY <1>1, <1>4, <3>1
    <3>3. QED
      BY <1>2, <3>2 DEF OneName
  <2>4. CASE Destroy
    BY <1>4, <2>4 DEF Destroy
  <2>5. QED
    BY <2>1, <2>2, <2>3, <2>4, WhatChanges
<1>5. ASSUME job'.phase = "failed" PROVE job'.names = <<>>
  <2>1. CASE job.phase = "failed" /\ UNCHANGED job
    BY <2>1 DEF OneName
  <2>2. CASE LoadInit \/ RegisterFails
    <3>1. job.names = <<>>
      <4>1. CASE LoadInit
        BY <1>1, <4>1 DEF LoadInit, JobShape
      <4>2. CASE RegisterFails
        BY <4>2, NothingYet DEF RegisterFails
      <4>3. QED
        BY <2>2, <4>1, <4>2
    <3>2. job'.names = job.names
      BY <1>1, <2>2 DEF LoadInit, RegisterFails, To, JobType
    <3>3. QED
      BY <3>1, <3>2
  <2>3. UNCHANGED job \/ LoadInit \/ RegisterFails
    <3>1. ASSUME NEW phase, To(phase) PROVE job'.phase = phase
      BY <1>1, <3>1 DEF To, JobType
    <3>2. ~Operation
      BY <1>5, FreshPhase
         DEF Operation, LoadFromDirectory, ReloadFromDirectory, UnloadAll, ReloadPlugin
    <3>3. ~Validate
      BY <1>5, <3>1, FreshPhase
         DEF Validate, ValidateOpen, ValidateCannotOpen, ActivateOnTrial, ValidateClose,
             Abort, Idle
    <3>4. ~Unload
      <4>1. ~UnloadClose
        BY <1>5, FreshPhase DEF UnloadClose
      <4>2. ~UnloadShutdown /\ ~UnloadUnregister
        BY <1>1, <1>5 DEF UnloadShutdown, UnloadUnregister, JobType
      <4>3. QED
        BY <4>1, <4>2 DEF Unload
    <3>5. ~LoadSkipped /\ ~LoadOpen /\ ~LoadDone /\ ~LoadFailed
      BY <1>5, <3>1, FreshPhase DEF LoadSkipped, LoadOpen, LoadDone, LoadFailed, NextEntry
    <3>6. ~HostRegisterTool
      BY <1>1, <1>5 DEF HostRegisterTool, JobType
    <3>7. QED
      BY <3>2, <3>3, <3>4, <3>5, <3>6
         DEF Next, Load, Destroy, Calling, Gone, Install, vars
  <2>4. QED
    BY <1>5, <2>1, <2>2, <2>3
<1>6. QED
  BY <1>3, <1>4, <1>5 DEF OneName

LEMMA ServedStep ==
  ASSUME OneToolEach, BaseInv, BaseInv', OneName, ToolsAreServed, [Next]_vars
  PROVE  ToolsAreServed'
<1>1. SUFFICES ASSUME NEW p \in Files, NEW n \in Names
               PROVE  n \in DOMAIN tools' /\ tools'[n] = p <=> Serves(p, n)'
  BY DEF ToolsAreServed
<1>2. n \in DOMAIN tools /\ tools[n] = p <=> Serves(p, n)
  BY DEF ToolsAreServed
<1>3. /\ TypeOK /\ PathsOnce /\ PathsOnce' /\ JobShape /\ job \in JobType
      /\ job.names \in Seq(Names) /\ plugins \in Seq(PluginType)
  BY TypeParts DEF BaseInv, ListedOnce, JobType
<1>4. CASE Quiet
  <2>1. Serves(p, n)' <=> Serves(p, n)
    BY <1>4 DEF Quiet, Serves, Victim, Entry, Loaded, ToolsOf, Position
  <2>2. QED
    BY <1>2, <1>4, <2>1 DEF Quiet
<1>5. CASE LoadInit /\ job'.phase = "register"
  <2>1. /\ job.phase = "init" /\ ~Loaded(Entry) /\ job.names = <<>>
        /\ UNCHANGED <<tools, plugins>>
    BY <1>3, <1>5, Hands DEF LoadInit, JobShape
  <2>2. job'.names = <<>> /\ Entry' = Entry
    BY <1>3, <1>5, <2>1 DEF LoadInit, To, JobType, Entry
  <2>3. Serves(p, n)' <=> Serves(p, n)
    BY <1>5, <2>1, <2>2 DEF Serves, Loaded, ToolsOf, Position, Range
  <2>4. QED
    BY <1>2, <2>1, <2>3
<1>6. CASE UnloadShutdown
  <2>1. job.phase = "unload" /\ Loaded(Victim) /\ UNCHANGED <<tools, plugins>>
    BY <1>6, Hands DEF UnloadShutdown
  <2>2. job'.phase = "unregister" /\ job'.names = ToolsOf(Victim) /\ Victim' = Victim
    BY <1>3, <1>6 DEF UnloadShutdown, JobType, Victim
  <2>3. Serves(p, n)' <=> Serves(p, n)
    BY <2>1, <2>2 DEF Serves, Loaded, ToolsOf, Position
  <2>4. QED
    BY <1>2, <2>1, <2>3
<1>7. CASE UnloadUnregister
  <2>1. job.phase = "unregister" /\ job.names # <<>> /\ UNCHANGED plugins
    BY <1>7 DEF UnloadUnregister
  <2>2. /\ job'.phase = "unregister" /\ job'.names = Tail(job.names)
        /\ Victim' = Victim
    BY <1>3, <1>7 DEF UnloadUnregister, JobType, Victim
  <2>3. /\ Range(job.names) = {Head(job.names)} /\ Head(job.names) \in Names
        /\ job'.names = <<>>
    BY <1>3, <2>1, <2>2, OneLong DEF OneName
  <2>4. /\ DOMAIN tools' = DOMAIN tools \ {Head(job.names)}
        /\ \A m \in DOMAIN tools': tools'[m] = tools[m]
    BY <1>7 DEF UnloadUnregister, UnregisterTool, Restrict
  <2>5. tools[Head(job.names)] = Victim
    <3>1. PICK v \in Files, h \in Names: v = Victim /\ h = Head(job.names)
      BY <2>1, <2>3, Hands
    <3>2. Serves(v, h)
      BY <2>1, <2>3, <3>1 DEF Serves
    <3>3. QED
      BY <3>1, <3>2 DEF ToolsAreServed
  <2>6. CASE p = Victim
    <3>1. ~Serves(p, n)'
      <4>1. Range(<<>>) = {}
        BY DEF Range
      <4>2. QED
        BY <2>2, <2>3, <2>6, <4>1 DEF Serves
    <3>2. n \in DOMAIN tools /\ tools[n] = p => n = Head(job.names)
      BY <1>2, <2>1, <2>3, <2>6 DEF Serves
    <3>3. QED
      BY <2>4, <3>1, <3>2
  <2>7. CASE p # Victim
    <3>1. Serves(p, n)' <=> Serves(p, n)
      BY <2>1, <2>2, <2>7 DEF Serves, Loaded, ToolsOf, Position
    <3>2. QED
      BY <1>2, <2>4, <2>5, <2>7, <3>1
  <2>8. QED
    BY <2>6, <2>7
<1>8. CASE UnloadClose
  <2>1. /\ job.phase = "unregister" /\ job.names = <<>> /\ UNCHANGED tools
        /\ Loaded(Victim) /\ plugins' = Without(Victim)
        /\ job'.phase \notin {"unregister", "register"}
    BY <1>8, Hands, FreshPhase DEF UnloadClose
  <2>2. /\ \A q: Loaded(q)' <=> Loaded(q) /\ q # Victim
        /\ \A i \in DOMAIN plugins': \E j \in DOMAIN plugins: plugins'[i] = plugins[j]
    BY <1>3, <2>1, WithoutDef
  <2>3. CASE p = Victim
    BY <1>2, <2>1, <2>2, <2>3 DEF Serves, Range
  <2>4. CASE p # Victim /\ Loaded(p)'
    <3>1. ToolsOf(p)' = ToolsOf(p)
      BY <1>3, <2>2, <2>4, ToolsOfKept
    <3>2. QED
      BY <1>2, <2>1, <2>2, <2>4, <3>1 DEF Serves
  <2>5. CASE p # Victim /\ ~Loaded(p)'
    BY <1>2, <2>1, <2>2, <2>5 DEF Serves
  <2>6. QED
    BY <2>3, <2>4, <2>5
<1>9. CASE HostRegisterTool
  <2>1. /\ job.phase = "register" /\ UNCHANGED plugins
        /\ Wanted \in Names /\ Wanted \notin DOMAIN tools
        /\ tools' = With(tools, Wanted, Entry)
    BY <1>9, WantedDef DEF HostRegisterTool, RegisterTool, Registered
  <2>2. /\ job'.phase = "register" /\ Entry' = Entry
        /\ job'.names = Append(job.names, Wanted)
    BY <1>3, <1>9 DEF HostRegisterTool, JobType, Entry
  <2>3. Range(job'.names) = Range(job.names) \cup {Wanted}
    BY <1>3, <2>1, <2>2, RangeOfAppend
  <2>4. n \in DOMAIN tools' /\ tools'[n] = p <=>
          (n \in DOMAIN tools /\ tools[n] = p) \/ (n = Wanted /\ p = Entry)
    BY <2>1 DEF With
  <2>5. Serves(p, n)' <=> Serves(p, n) \/ (n = Wanted /\ p = Entry)
    BY <2>1, <2>2, <2>3 DEF Serves, Loaded, ToolsOf, Position
  <2>6. QED
    BY <1>2, <2>4, <2>5
<1>10. CASE RegisterFails
  <2>1. /\ job.phase = "register" /\ UNCHANGED <<tools, plugins>>
        /\ ~Loaded(Entry) /\ job.names = <<>>
    BY <1>10, Hands, NothingYet DEF RegisterFails
  <2>2. job'.phase = "failed"
    BY <1>3, <1>10 DEF RegisterFails, To, JobType
  <2>3. Serves(p, n)' <=> Serves(p, n)
    BY <2>1, <2>2 DEF Serves, Loaded, ToolsOf, Position, Range
  <2>4. QED
    BY <1>2, <2>1, <2>3
<1>11. CASE LoadDone
  <2>1. /\ job.phase = "register" /\ ~Loaded(Entry) /\ Entry \in Files
        /\ UNCHANGED tools /\ job'.phase \notin {"unregister", "register"}
    BY <1>11, Hands, FreshPhase DEF LoadDone, NextEntry, Loading
  <2>2. PICK new \in PluginType: new = [path |-> Entry, names |-> job.names]
    <3>1. [path |-> Entry, names |-> job.names] \in PluginType
      BY <1>3, <2>1 DEF PluginType
    <3>2. QED
      BY <3>1
  <2>3. /\ new.path = Entry /\ new.names = job.names /\ ~Loaded(new.path)
        /\ plugins' = Append(plugins, new)
    BY <1>11, <2>1, <2>2 DEF LoadDone
  <2>4. /\ \A q: Loaded(q)' <=> Loaded(q) \/ q = new.path
        /\ \A i \in DOMAIN plugins':
             plugins'[i] = new \/ \E j \in DOMAIN plugins: plugins'[i] = plugins[j]
        /\ ToolsOf(new.path)' = new.names
    BY <1>3, <2>3, AppendedDef
  <2>5. CASE p = new.path
    BY <1>2, <2>1, <2>3, <2>4, <2>5 DEF Serves
  <2>6. CASE p # new.path /\ Loaded(p)'
    <3>1. ToolsOf(p)' = ToolsOf(p)
      BY <1>3, <2>4, <2>6, ToolsOfKept
    <3>2. QED
      BY <1>2, <2>1, <2>3, <2>4, <2>6, <3>1 DEF Serves
  <2>7. CASE p # new.path /\ ~Loaded(p)'
    BY <1>2, <2>1, <2>3, <2>4, <2>7 DEF Serves
  <2>8. QED
    BY <2>5, <2>6, <2>7
<1>12. CASE Destroy
  <2>1. job'.phase = "idle" /\ tools' = <<>> /\ ~Loaded(p)'
    BY <1>12 DEF Destroy, MutexFree, Loaded
  <2>2. QED
    BY <2>1 DEF Serves
<1>13. QED
  BY <1>4, <1>5, <1>6, <1>7, <1>8, <1>9, <1>10, <1>11, <1>12, SteppedOn

LEMMA OwnerIsThere ==
  ASSUME BaseInv, ToolsAreServed, NEW n \in DOMAIN tools
  PROVE  \/ tools[n] = Server
         \/ /\ tools[n] \in Files
            /\ \/ Loaded(tools[n])
               \/ job.phase = "register" /\ tools[n] = Entry /\ job.names # <<>>
<1>1. n \in Names /\ tools[n] \in Files \cup {Server}
  BY TypeParts, OwnersAreFilesAndServer DEF BaseInv, ToolsOK
<1>2. SUFFICES ASSUME tools[n] # Server
               PROVE  \/ Loaded(tools[n])
                      \/ job.phase = "register" /\ tools[n] = Entry /\ job.names # <<>>
  BY <1>1
<1>3. PICK p \in Files: p = tools[n]
  BY <1>1, <1>2
<1>4. Serves(p, n)
  BY <1>1, <1>3 DEF ToolsAreServed
<1>5. CASE job.phase = "unregister" /\ p = Victim
  BY <1>3, <1>5, Hands
<1>6. CASE job.phase = "register" /\ p = Entry
  BY <1>3, <1>4, <1>6 DEF Serves, Range
<1>7. QED
  BY <1>3, <1>4, <1>5, <1>6 DEF Serves

\* What each step does to the calls under way: those that do not run the code
\* that a close unmaps keep theirs.
LEMMA CallsAfter ==
  ASSUME BaseInv, [Next]_vars, NEW c \in DOMAIN calls, c \in DOMAIN calls'
  PROVE  /\ calls'[c].owner = calls[c].owner
         /\ "code" \in calls[c].lost => "code" \in calls'[c].lost
         /\ \/ calls'[c].lost \cap {"tool", "code"} = calls[c].lost \cap {"tool", "code"}
            \/ job.phase = "unregister"
            \/ /\ \/ ValidateClose /\ calls[c].owner = Validated /\ ~Loaded(Validated)
                  \/ LoadFailed /\ calls[c].owner = Entry
               /\ calls[c].lost \subseteq calls'[c].lost
               /\ calls'[c].lost \subseteq calls[c].lost \cup {"code", "state"}
         /\ UnloadClose /\ calls[c].owner = Victim => "code" \in calls'[c].lost
<1>1. /\ TypeOK /\ ImageOK(image) /\ CallsOK(calls) /\ ToolsOK(tools)
      /\ job \in JobType
  BY TypeParts DEF BaseInv
<1> DEFINE Same == /\ calls'[c].owner = calls[c].owner
                   /\ calls'[c].lost \cap {"tool", "code"} = calls[c].lost \cap {"tool", "code"}
<1>2. SUFFICES \/ Same /\ ~UnloadClose
               \/ /\ job.phase = "unregister" /\ calls'[c].owner = calls[c].owner
                  /\ calls[c].lost \subseteq calls'[c].lost
                  /\ UnloadClose /\ calls[c].owner = Victim => "code" \in calls'[c].lost
               \/ /\ calls'[c].owner = calls[c].owner /\ calls[c].lost \subseteq calls'[c].lost
                  /\ calls'[c].lost \subseteq calls[c].lost \cup {"code", "state"}
                  /\ ~UnloadClose
                  /\ \/ ValidateClose /\ calls[c].owner = Validated /\ ~Loaded(Validated)
                     \/ LoadFailed /\ calls[c].owner = Entry
  OBVIOUS
<1>3. CASE UNCHANGED calls /\ job.phase # "unregister"
  BY <1>3 DEF UnloadClose
<1>4. CASE Calling
  <2>1. ASSUME NEW d \in Callers, NEW n \in Names, CallTool(d, n)
        PROVE  calls'[c] = calls[c]
    BY <2>1 DEF CallTool, With
  <2>2. ASSUME NEW d \in Callers, CallReturns(d)
        PROVE  calls'[c] = calls[c]
    BY <2>2 DEF CallReturns, Restrict
  <2>3. calls'[c] = calls[c]
    BY <1>4, <2>1, <2>2 DEF Calling
  <2>4. ~UnloadClose
    BY <1>4, FreshPhase DEF Calling, UnloadClose
  <2>5. QED
    BY <2>3, <2>4
<1>5. ASSUME NEW p \in Files, p \in DOMAIN image,
             Renewed(p) \/ RenewedAndShutdown(p) \/ Shutdown(p), job.phase # "unregister"
      PROVE  Same /\ ~UnloadClose
  <2>1. Same
    BY <1>1, <1>5, RenewedDef, ShutdownDef
  <2>2. QED
    BY <1>5, <2>1 DEF UnloadClose
<1>6. CASE UnloadUnregister
  <2>1. /\ job.phase = "unregister" /\ job.names # <<>>
        /\ UnregisterTool(Head(job.names)) /\ ~UnloadClose
    BY <1>6 DEF UnloadUnregister, UnloadClose
  <2>2. Head(job.names) \in Names
    BY <1>1, <2>1 DEF JobType
  <2>3. /\ calls'[c].owner = calls[c].owner
        /\ calls[c].lost \subseteq calls'[c].lost
    BY <1>1, <2>1, <2>2, UnregisterDef
  <2>4. QED
    BY <2>1, <2>3
<1>7. ASSUME NEW p \in Files, p \in DOMAIN image, DlClose(p) \/ ShutdownAndClose(p)
      PROVE  /\ calls'[c].owner = calls[c].owner
             /\ calls[c].lost \subseteq calls'[c].lost
             /\ calls'[c].lost \subseteq calls[c].lost \cup {"code", "state"}
             /\ calls[c].owner # p => Same
             /\ image[p].handles # 1 => Same
             /\ image[p].handles = 1 /\ calls[c].owner = p => "code" \in calls'[c].lost
  <2>1. /\ calls'[c].owner = calls[c].owner
        /\ calls[c].owner # p => calls'[c].lost = calls[c].lost
        /\ calls[c].owner = p =>
             /\ calls[c].lost \cup Code(p) \subseteq calls'[c].lost
             /\ calls'[c].lost \subseteq calls[c].lost \cup Code(p) \cup {"state"}
    BY <1>1, <1>7, CloseDef
  <2>2. Code(p) = IF image[p].handles = 1 THEN {"code"} ELSE {}
    BY DEF Code
  <2>3. QED
    BY <2>1, <2>2
<1>8. CASE ActivateOnTrial
  <2>1. PICK p \in Files: p = Validated /\ p \in DOMAIN image
    <3>1. PICK p \in Files: p = Validated /\ HandedOut(p)
      BY <1>8, Hands DEF ActivateOnTrial, Validating
    <3>2. QED
      BY <3>1, InHand
  <2>2. UNCHANGED calls \/ Renewed(p) \/ RenewedAndShutdown(p)
    BY <1>8, <2>1 DEF ActivateOnTrial
  <2>3. job.phase # "unregister"
    BY <1>8 DEF ActivateOnTrial
  <2>4. QED
    BY <1>3, <1>5, <2>1, <2>2, <2>3
<1>9. CASE LoadInit \/ RegisterFails
  <2>1. PICK p \in Files: p = Entry /\ p \in DOMAIN image
    <3>1. PICK p \in Files: p = Entry /\ HandedOut(p)
      BY <1>9, Hands DEF LoadInit, RegisterFails, Loading
    <3>2. QED
      BY <3>1, InHand
  <2>2. UNCHANGED calls \/ Renewed(p) \/ Shutdown(p)
    BY <1>9, <2>1 DEF LoadInit, RegisterFails
  <2>3. job.phase # "unregister"
    BY <1>9 DEF LoadInit, RegisterFails
  <2>4. QED
    BY <1>3, <1>5, <2>1, <2>2, <2>3
<1>10. CASE UnloadShutdown
  <2>1. PICK p \in Files: p = Victim /\ p \in DOMAIN image
    <3>1. PICK p \in Files: p = Victim /\ Loaded(p)
      BY <1>10, Hands DEF UnloadShutdown
    <3>2. QED
      BY <3>1, LoadedIsMapped
  <2>2. QED
    BY <1>5, <1>10, <2>1 DEF UnloadShutdown
<1>11. CASE ValidateClose
  <2>1. PICK p \in Files: p = Validated /\ HandedOut(p)
    BY <1>11, Hands DEF ValidateClose, Validating
  <2>2. p \in DOMAIN image /\ image[p].handles = IF Loaded(p) THEN 2 ELSE 1
    BY <2>1, InHand
  <2>3. ShutdownAndClose(p) /\ ~UnloadClose
    BY <1>11, <2>1 DEF ValidateClose, UnloadClose
  <2>4. QED
    BY <1>7, <1>11, <2>1, <2>2, <2>3
<1>12. CASE LoadFailed
  <2>1. PICK p \in Files: p = Entry /\ HandedOut(p)
    BY <1>12, Hands DEF LoadFailed, Loading
  <2>2. p \in DOMAIN image
    BY <2>1, InHand
  <2>3. ShutdownAndClose(p) /\ ~UnloadClose
    BY <1>12, <2>1 DEF LoadFailed, UnloadClose
  <2>4. QED
    BY <1>7, <1>12, <2>1, <2>2, <2>3
<1>13. CASE UnloadClose
  <2>1. PICK p \in Files: p = Victim /\ Loaded(p) /\ ~HandedOut(p)
    BY <1>13, Hands DEF UnloadClose
  <2>2. p \in DOMAIN image /\ image[p].handles = 1
    BY <2>1, LoadedIsMapped
  <2>3. DlClose(p) /\ job.phase = "unregister"
    BY <1>13, <2>1 DEF UnloadClose
  <2>4. QED
    BY <1>7, <2>1, <2>2, <2>3
<1>14. CASE UNCHANGED <<calls, job>>
  <2>1. ~UnloadClose
    BY <1>14, FreshPhase DEF UnloadClose
  <2>2. QED
    BY <1>14, <2>1
<1>15. \/ UNCHANGED calls /\ job.phase # "unregister"
       \/ Calling \/ UnloadUnregister \/ ActivateOnTrial \/ LoadInit \/ RegisterFails
       \/ UnloadShutdown \/ ValidateClose \/ LoadFailed \/ UnloadClose
       \/ UNCHANGED <<calls, job>>
  BY DEF Next, Operation, LoadFromDirectory, ReloadFromDirectory, UnloadAll, ReloadPlugin,
     Validate, ValidateOpen, ValidateCannotOpen, Unload, Load, LoadSkipped, LoadOpen,
     HostRegisterTool, LoadDone, Destroy, Gone, Install, MutexFree, vars
<1>16. QED
  BY <1>3, <1>4, <1>6, <1>8, <1>9, <1>10, <1>11, <1>12, <1>13, <1>14, <1>15

\* Only callTool begins a call.
LEMMA NewCall ==
  ASSUME [Next]_vars, NEW c \in DOMAIN calls', c \notin DOMAIN calls
  PROVE  \E n \in Names: CallTool(c, n) /\ UNCHANGED job
<1>1. DOMAIN calls' # DOMAIN calls
  OBVIOUS
<1>2. Calling
  <2>1. ASSUME NEW q, NEW parts PROVE DOMAIN Taken(q, parts) = DOMAIN calls
    BY DEF Taken, Losing
  <2>2. ASSUME NEW q,
               \/ Renewed(q) \/ RenewedAndShutdown(q) \/ Shutdown(q)
               \/ DlClose(q) \/ ShutdownAndClose(q)
        PROVE  DOMAIN calls' = DOMAIN calls
    BY <2>1, <2>2 DEF Renewed, RenewedAndShutdown, Shutdown, DlClose, ShutdownAndClose
  <2>3. ASSUME NEW n, UnregisterTool(n) PROVE DOMAIN calls' = DOMAIN calls
    BY <2>3 DEF UnregisterTool, Losing
  <2>4. QED
    BY <1>1, <2>2, <2>3
       DEF Next, Operation, LoadFromDirectory, ReloadFromDirectory, UnloadAll,
           ReloadPlugin, Validate, ValidateOpen, ValidateCannotOpen,
           ActivateOnTrial, ValidateClose, Unload, UnloadShutdown,
           UnloadUnregister, UnloadClose, Load, LoadSkipped, LoadOpen, LoadInit,
           HostRegisterTool, RegisterFails, LoadDone, LoadFailed, Destroy, Gone,
           Install, vars
<1>3. PICK d \in Callers: (\E n \in Names: CallTool(d, n)) \/ CallReturns(d)
  BY <1>2 DEF Calling
<1>4. ~CallReturns(d)
  BY DEF CallReturns, Restrict
<1>5. PICK n \in Names: CallTool(d, n)
  BY <1>3, <1>4
<1>6. d = c
  BY <1>5 DEF CallTool, With
<1>7. QED
  BY <1>2, <1>5, <1>6 DEF Calling

LEMMA KeepCodeStep ==
  ASSUME OneToolEach, BaseInv, ToolsAreServed, CallsKeepCode, [Next]_vars
  PROVE  CallsKeepCode'
<1>1. SUFFICES ASSUME NEW c \in DOMAIN calls', "code" \notin calls'[c].lost,
                      NEW p, p = calls'[c].owner, p # Server
               PROVE  \/ Loaded(p)'
                      \/ job'.phase = "register" /\ p = Entry' /\ job'.names # <<>>
  BY DEF CallsKeepCode
<1>2. /\ TypeOK /\ PathsOnce /\ JobShape /\ job \in JobType /\ job.names \in Seq(Names)
      /\ CallsOK(calls) /\ plugins \in Seq(PluginType)
  BY TypeParts DEF BaseInv, ListedOnce, JobType
\* Whose tool it is: a plugin that is loaded or about to be, before the step.
<1>3. /\ \/ Loaded(p)
         \/ job.phase = "register" /\ p = Entry /\ job.names # <<>>
      /\ ~(UnloadClose /\ p = Victim)
  <2>1. CASE c \in DOMAIN calls
    <3>1. p = calls[c].owner /\ "code" \notin calls[c].lost
      BY <1>1, <2>1, CallsAfter
    <3>2. ~(UnloadClose /\ p = Victim)
      BY <1>1, <2>1, <3>1, CallsAfter
    <3>3. \/ Loaded(p)
          \/ job.phase = "register" /\ p = Entry /\ job.names # <<>>
      BY <1>1, <2>1, <3>1 DEF CallsKeepCode
    <3>4. QED
      BY <3>1, <3>2, <3>3
  <2>2. CASE c \notin DOMAIN calls
    <3>1. PICK n \in Names: CallTool(c, n) /\ UNCHANGED job
      BY <1>1, <2>2, NewCall
    <3>2. n \in DOMAIN tools /\ p = tools[n]
      BY <1>1, <3>1 DEF CallTool, Registered, With
    <3>3. ~UnloadClose
      BY <3>1, FreshPhase DEF UnloadClose
    <3>4. QED
      BY <1>1, <3>2, <3>3, OwnerIsThere
  <2>3. QED
    BY <2>1, <2>2
<1>4. ASSUME Loaded(p)
      PROVE  Loaded(p)'
  <2>1. CASE UNCHANGED plugins
    BY <1>4, <2>1 DEF Loaded
  <2>2. CASE UnloadClose
    <3>1. Loaded(Victim) /\ plugins' = Without(Victim) /\ p # Victim
      BY <1>3, <2>2, Hands DEF UnloadClose
    <3>2. QED
      BY <1>2, <1>4, <3>1, WithoutDef
  <2>3. CASE LoadDone
    <3>1. PICK new \in PluginType: new = [path |-> Entry, names |-> job.names]
      <4>1. [path |-> Entry, names |-> job.names] \in PluginType
        BY <1>2, <2>3, Hands DEF PluginType, LoadDone, Loading
      <4>2. QED
        BY <4>1
    <3>2. plugins' = Append(plugins, new)
      BY <2>3, <3>1 DEF LoadDone
    <3>3. \A i \in DOMAIN plugins: i \in DOMAIN plugins' /\ plugins'[i] = plugins[i]
      BY <1>2, <3>2
    <3>4. QED
      BY <1>4, <3>3 DEF Loaded
  <2>4. CASE Destroy
    BY <1>1, <2>4 DEF Destroy
  <2>5. QED
    BY <2>1, <2>2, <2>3, <2>4, WhatChanges
<1>5. ASSUME job.phase = "register", p = Entry, job.names # <<>>
      PROVE  \/ Loaded(p)'
             \/ job'.phase = "register" /\ p = Entry' /\ job'.names # <<>>
  <2>1. CASE UNCHANGED job
    BY <1>5, <2>1 DEF Entry
  <2>2. CASE HostRegisterTool
    <3>1. AllRegistered
      BY <1>5, NothingYet
    <3>2. QED
      BY <2>2, <3>1 DEF HostRegisterTool
  <2>3. CASE RegisterFails
    BY <1>5, <2>3, NothingYet
  <2>4. CASE LoadDone
    <3>1. plugins' = Append(plugins, [path |-> Entry, names |-> job.names])
      BY <2>4 DEF LoadDone
    <3>2. PICK new \in PluginType: new = [path |-> Entry, names |-> job.names]
      <4>1. [path |-> Entry, names |-> job.names] \in PluginType
        BY <1>2, <1>5, Hands DEF PluginType, Loading
      <4>2. QED
        BY <4>1
    <3>3. /\ Len(plugins) + 1 \in DOMAIN plugins'
          /\ plugins'[Len(plugins) + 1] = new
      BY <1>2, <3>1, <3>2
    <3>4. QED
      BY <1>5, <3>2, <3>3 DEF Loaded
  <2>5. UNCHANGED job \/ HostRegisterTool \/ RegisterFails \/ LoadDone
    BY <1>5 DEF Next, Operation, LoadFromDirectory, ReloadFromDirectory, UnloadAll,
       ReloadPlugin, MutexFree, Validate, ValidateOpen, ValidateCannotOpen,
       ActivateOnTrial, ValidateClose, Unload, UnloadShutdown, UnloadUnregister,
       UnloadClose, Load, LoadSkipped, LoadOpen, LoadInit, LoadFailed, Destroy,
       Calling, Gone, Install, vars
  <2>6. QED
    BY <2>1, <2>2, <2>3, <2>4, <2>5
<1>6. QED
  BY <1>3, <1>4, <1>5

LEMMA ServeInvHolds ==
  ASSUME OneToolEach PROVE Spec => []ServeInv
<1>1. ASSUME Init PROVE ServeInv
  <2>1. /\ tools = [n \in Builtins |-> Server] /\ calls = <<>> /\ plugins = <<>>
        /\ job.names = <<>>
    BY <1>1 DEF Init, Idle, Remaining, Job
  <2>2. job.phase \in {"validate", "unload", "load", "idle"}
    <3>1. BaseInv
      BY <1>1, InitBase
    <3>2. job.phase = "idle"
      BY <1>1 DEF Init, Idle, Remaining, Job
    <3>3. QED
      BY <3>2
  <2>3. OneName
    BY <2>1, <2>2 DEF OneName
  <2>4. ToolsAreServed
    BY <2>1, <2>2, ServerIsNoFile DEF ToolsAreServed, Serves, Loaded
  <2>5. CallsKeepCode
    BY <2>1 DEF CallsKeepCode
  <2>6. QED
    BY <2>3, <2>4, <2>5 DEF ServeInv
<1>2. ASSUME BaseInv, BaseInv', ServeInv, [Next]_vars PROVE ServeInv'
  BY <1>2, OneNameStep, ServedStep, KeepCodeStep DEF ServeInv
<1>3. Init => ServeInv
  BY <1>1
<1>4. BaseInv /\ BaseInv' /\ ServeInv /\ [Next]_vars => ServeInv'
  BY <1>2
<1>5. QED
  BY <1>3, <1>4, BaseInvHolds, PTL DEF Spec

LEMMA MappedTools ==
  ASSUME BaseInv, ServeInv PROVE UnregisteredBeforeClosed
<1>1. SUFFICES ASSUME NEW n \in DOMAIN tools, tools[n] # Server
               PROVE  tools[n] \in DOMAIN image
  BY DEF UnregisteredBeforeClosed
<1>2. PICK p \in Files: p = tools[n]
  BY <1>1, OwnerIsThere DEF ServeInv
<1>3. Loaded(p) \/ HandedOut(p)
  BY <1>1, <1>2, OwnerIsThere DEF ServeInv, HandedOut, Loading
<1>4. QED
  BY <1>1, <1>2, <1>3, LoadedIsMapped, InHand

\* Whenever a caller looks, the tool it finds has its code mapped, if libraries
\* have one tool at most and do not fail once it is registered: plugins register
\* after dlopen, an unload unregisters before dlclose, and a load that fails has
\* registered nothing.
THEOREM ToolsAreMapped == Spec => []RegisteredIsMapped
<1>1. CASE OneToolEach
  <2>1. BaseInv /\ ServeInv => RegisteredIsMapped
    BY MappedTools DEF RegisteredIsMapped
  <2>2. QED
    BY <1>1, <2>1, BaseInvHolds, ServeInvHolds, PTL
<1>2. CASE ~OneToolEach
  <2>1. RegisteredIsMapped
    BY <1>2 DEF RegisteredIsMapped
  <2>2. QED
    BY <2>1, PTL
<1>3. QED
  BY <1>1, <1>2

LEMMA ServedTools ==
  ASSUME BaseInv, ServeInv PROVE LoadedServesItsTools
<1>1. SUFFICES ASSUME MutexFree, NEW p \in Files
               PROVE  {n \in DOMAIN tools: tools[n] = p} =
                        UNION {Range(plugins[i].names):
                                 i \in {j \in DOMAIN plugins: plugins[j].path = p}}
  BY DEF LoadedServesItsTools
<1>2. ToolsOK(tools) /\ plugins \in Seq(PluginType) /\ PathsOnce
  BY <1>1, TypeParts DEF BaseInv, ListedOnce
<1>3. \A n \in Names: n \in DOMAIN tools /\ tools[n] = p <=>
        Loaded(p) /\ n \in Range(ToolsOf(p))
  BY <1>1 DEF ServeInv, ToolsAreServed, Serves, MutexFree
<1>4. \A i \in DOMAIN plugins: Range(plugins[i].names) \subseteq Names
  <2>1. \A i \in DOMAIN plugins: plugins[i] \in PluginType
    BY <1>2
  <2>2. QED
    BY <2>1 DEF PluginType, Range
<1>5. CASE Loaded(p)
  <2>1. PICK i \in DOMAIN plugins: plugins[i].path = p
    BY <1>5 DEF Loaded
  <2>2. {j \in DOMAIN plugins: plugins[j].path = p} = {i}
    BY <1>2, <2>1 DEF PathsOnce
  <2>3. ToolsOf(p) = plugins[i].names
    BY <1>2, <2>1, PositionDef
  <2>4. UNION {Range(plugins[k].names): k \in {i}} = Range(plugins[i].names)
    OBVIOUS
  <2>5. {n \in DOMAIN tools: tools[n] = p} = Range(plugins[i].names)
    BY <1>2, <1>3, <1>4, <1>5, <2>3 DEF ToolsOK
  <2>6. QED
    BY <2>2, <2>4, <2>5
<1>6. CASE ~Loaded(p)
  <2>1. {j \in DOMAIN plugins: plugins[j].path = p} = {}
    BY <1>6 DEF Loaded
  <2>2. {n \in DOMAIN tools: tools[n] = p} = {}
    BY <1>2, <1>3, <1>6 DEF ToolsOK
  <2>3. QED
    BY <2>1, <2>2
<1>7. QED
  BY <1>5, <1>6

\* Between operations each loaded plugin has just the tools it recorded, for
\* libraries as above: no operation leaves a tool without its plugin or a plugin
\* without its tool.
THEOREM LoadedServe == Spec => []LoadedServesItsTools
<1>1. CASE OneToolEach
  <2>1. BaseInv /\ ServeInv => LoadedServesItsTools
    BY ServedTools
  <2>2. QED
    BY <1>1, <2>1, BaseInvHolds, ServeInvHolds, PTL
<1>2. CASE ~OneToolEach
  <2>1. LoadedServesItsTools
    BY <1>2 DEF LoadedServesItsTools
  <2>2. QED
    BY <2>1, PTL
<1>3. QED
  BY <1>1, <1>2

\* A call that still has its tool runs the one that is registered.
CallsKeepTool ==
  \A c \in DOMAIN calls:
    \/ "tool" \in calls[c].lost
    \/ calls[c].name \in DOMAIN tools /\ tools[calls[c].name] = calls[c].owner

LEMMA SameCalls ==
  ASSUME CallsOK(calls), NEW parts \in SUBSET Parts, NEW hit, calls' = Losing(parts, hit)
  PROVE  \A c \in DOMAIN calls: /\ calls'[c].name = calls[c].name
                                /\ calls'[c].owner = calls[c].owner
                                /\ calls[c].lost \subseteq calls'[c].lost
<1>1. /\ CallsOK(Losing(parts, hit))
      /\ DOMAIN Losing(parts, hit) = DOMAIN calls
      /\ \A c \in DOMAIN calls:
           /\ Losing(parts, hit)[c].name = calls[c].name
           /\ Losing(parts, hit)[c].owner = calls[c].owner
           /\ Losing(parts, hit)[c].lost =
                IF c \in hit THEN calls[c].lost \cup parts ELSE calls[c].lost
  BY LosingDef, Zenon
<1>2. QED
  BY <1>1

\* A step leaves a call what it is about, and gives back nothing it has lost.
LEMMA CallsGoOn ==
  ASSUME BaseInv, [Next]_vars, NEW c \in DOMAIN calls, c \in DOMAIN calls'
  PROVE  /\ calls'[c].name = calls[c].name /\ calls'[c].owner = calls[c].owner
         /\ calls[c].lost \subseteq calls'[c].lost
<1>1. CallsOK(calls)
  BY TypeParts DEF BaseInv
<1>2. ASSUME NEW parts \in SUBSET Parts, NEW hit, calls' = Losing(parts, hit)
      PROVE  /\ calls'[c].name = calls[c].name /\ calls'[c].owner = calls[c].owner
             /\ calls[c].lost \subseteq calls'[c].lost
  BY <1>1, <1>2, SameCalls
<1>3. ASSUME NEW p,
             \/ Renewed(p) \/ RenewedAndShutdown(p) \/ Shutdown(p)
             \/ DlClose(p) \/ ShutdownAndClose(p)
      PROVE  \E parts \in SUBSET Parts: calls' = Taken(p, parts)
  <2>1. /\ State(p) \in SUBSET Parts /\ Code(p) \in SUBSET Parts /\ {} \in SUBSET Parts
        /\ Code(p) \cup State(p) \in SUBSET Parts
    BY DEF State, Code, Parts
  <2>2. QED
    BY <1>3, <2>1 DEF Renewed, RenewedAndShutdown, Shutdown, DlClose, ShutdownAndClose
<1>4. ASSUME NEW p, NEW parts \in SUBSET Parts, calls' = Taken(p, parts)
      PROVE  \E hit: calls' = Losing(parts, hit)
  BY <1>4 DEF Taken
<1>5. ASSUME NEW n, UnregisterTool(n)
      PROVE  \E parts \in SUBSET Parts: \E hit: calls' = Losing(parts, hit)
  BY <1>5 DEF UnregisterTool, Parts
<1>6. CASE Calling
  <2>1. ASSUME NEW d \in Callers, NEW n \in Names, CallTool(d, n)
        PROVE  calls'[c] = calls[c]
    BY <2>1 DEF CallTool, With
  <2>2. ASSUME NEW d \in Callers, CallReturns(d)
        PROVE  calls'[c] = calls[c]
    BY <2>2 DEF CallReturns, Restrict
  <2>3. QED
    BY <1>6, <2>1, <2>2 DEF Calling
<1>7. CASE UNCHANGED calls
  BY <1>7
<1>8. \/ Calling \/ UNCHANGED calls \/ UnregisterTool(Head(job.names))
      \/ \E p: \/ Renewed(p) \/ RenewedAndShutdown(p) \/ Shutdown(p)
               \/ DlClose(p) \/ ShutdownAndClose(p)
  BY DEF Next, Operation, LoadFromDirectory, ReloadFromDirectory, UnloadAll, ReloadPlugin,
     Validate, ValidateOpen, ValidateCannotOpen, ActivateOnTrial, ValidateClose,
     Unload, UnloadShutdown, UnloadUnregister, UnloadClose, Load, LoadSkipped, LoadOpen,
     LoadInit, HostRegisterTool, RegisterFails, LoadDone, LoadFailed, Destroy, Gone,
     Install, vars
<1>9. QED
  BY <1>2, <1>3, <1>4, <1>5, <1>6, <1>7, <1>8

\* unregisterTool takes the tool from the calls through it.
LEMMA ToolTaken ==
  ASSUME CallsOK(calls), NEW n, UnregisterTool(n), n \in DOMAIN tools,
         NEW c \in DOMAIN calls, calls[c].name = n
  PROVE  "tool" \in calls'[c].lost
<1> DEFINE hit == {d \in DOMAIN calls: Registered(n) /\ calls[d].name = n}
<1>1. PICK parts \in SUBSET Parts: parts = {"tool"}
  BY DEF Parts
<1>2. calls' = Losing(parts, hit) /\ c \in hit
  BY <1>1 DEF UnregisterTool, Registered
<1> HIDE DEF hit
<1>3. Losing(parts, hit)[c].lost = calls[c].lost \cup parts
  BY <1>2, LosingDef
<1>4. QED
  BY <1>1, <1>2, <1>3

\* The steps that take the code from a call that has it.
LEMMA CodeTakenBy ==
  ASSUME BaseInv, [Next]_vars, NEW c \in DOMAIN calls, c \in DOMAIN calls',
         "code" \notin calls[c].lost, "code" \in calls'[c].lost
  PROVE  \/ UnloadClose /\ calls[c].owner = Victim
         \/ ValidateClose /\ calls[c].owner = Validated /\ ~Loaded(Validated)
         \/ LoadFailed /\ calls[c].owner = Entry
<1>1. CallsOK(calls) /\ job \in JobType
  BY TypeParts DEF BaseInv
<1>2. CASE job.phase # "unregister"
  BY <1>2, CallsAfter
<1>3. CASE job.phase = "unregister"
  <2>1. CASE UNCHANGED calls
    BY <2>1
  <2>2. CASE Calling
    <3>1. ASSUME NEW d \in Callers, NEW n \in Names, CallTool(d, n)
          PROVE  calls'[c] = calls[c]
      BY <3>1 DEF CallTool, With
    <3>2. ASSUME NEW d \in Callers, CallReturns(d)
          PROVE  calls'[c] = calls[c]
      BY <3>2 DEF CallReturns, Restrict
    <3>3. QED
      BY <2>2, <3>1, <3>2 DEF Calling
  <2>3. CASE UnloadUnregister
    <3>1. PICK parts \in SUBSET Parts: parts = {"tool"}
      BY DEF Parts
    <3>2. PICK hit: calls' = Losing(parts, hit)
      BY <2>3, <3>1 DEF UnloadUnregister, UnregisterTool
    <3>3. Losing(parts, hit)[c].lost =
            IF c \in hit THEN calls[c].lost \cup parts ELSE calls[c].lost
      BY <1>1, LosingDef
    <3>4. QED
      BY <3>1, <3>2, <3>3
  <2>4. CASE UnloadClose
    <3>1. PICK v: v = Victim
      OBVIOUS
    <3>2. PICK parts \in SUBSET Parts: parts = Code(v)
      BY DEF Code, Parts
    <3>3. calls' = Taken(v, parts)
      BY <2>4, <3>1, <3>2 DEF UnloadClose, DlClose
    <3>4. Taken(v, parts)[c].lost =
            IF calls[c].owner = v THEN calls[c].lost \cup parts ELSE calls[c].lost
      BY <1>1, TakenDef
    <3>5. QED
      BY <2>4, <3>1, <3>3, <3>4
  <2>5. QED
    BY <1>3, <2>1, <2>2, <2>3, <2>4
       DEF Next, Operation, LoadFromDirectory, ReloadFromDirectory, UnloadAll, ReloadPlugin,
           MutexFree, Validate, ValidateOpen, ValidateCannotOpen, ActivateOnTrial,
           ValidateClose, Unload, UnloadShutdown, Load, LoadSkipped, LoadOpen, LoadInit,
           HostRegisterTool, RegisterFails, LoadDone, LoadFailed, Destroy, Gone, Install,
           vars
<1>4. QED
  BY <1>2, <1>3

LEMMA KeepToolStep ==
  ASSUME BaseInv, CallsKeepTool, [Next]_vars
  PROVE  CallsKeepTool'
<1>1. SUFFICES ASSUME NEW c \in DOMAIN calls', "tool" \notin calls'[c].lost
               PROVE  /\ calls'[c].name \in DOMAIN tools'
                      /\ tools'[calls'[c].name] = calls'[c].owner
  BY DEF CallsKeepTool
<1>2. ToolsOK(tools) /\ CallsOK(calls) /\ job \in JobType
  BY TypeParts DEF BaseInv
<1>3. CASE c \notin DOMAIN calls
  <2>1. PICK n \in Names: CallTool(c, n)
    BY <1>1, <1>3, NewCall
  <2>2. QED
    BY <2>1 DEF CallTool, Registered, With
<1>4. CASE c \in DOMAIN calls
  <2>1. /\ calls'[c].name = calls[c].name /\ calls'[c].owner = calls[c].owner
        /\ "tool" \notin calls[c].lost
    BY <1>1, <1>4, CallsGoOn
  <2>2. calls[c].name \in DOMAIN tools /\ tools[calls[c].name] = calls[c].owner
    BY <1>4, <2>1 DEF CallsKeepTool
  <2>3. CASE UNCHANGED tools
    BY <2>1, <2>2, <2>3
  <2>4. CASE UnloadUnregister
    <3>1. PICK n \in Names: n = Head(job.names) /\ UnregisterTool(n)
      BY <1>2, <2>4 DEF UnloadUnregister, JobType
    <3>2. tools' = Restrict(tools, DOMAIN tools \ {n})
      BY <3>1 DEF UnregisterTool
    <3>3. calls[c].name # n
      BY <1>1, <1>2, <1>4, <2>2, <3>1, ToolTaken
    <3>4. QED
      BY <2>1, <2>2, <3>2, <3>3 DEF Restrict
  <2>5. CASE HostRegisterTool
    <3>1. PICK n: ~Registered(n) /\ tools' = With(tools, n, Entry)
      BY <2>5 DEF HostRegisterTool, RegisterTool
    <3>2. QED
      BY <2>1, <2>2, <3>1 DEF Registered, With
  <2>6. CASE Destroy
    BY <1>4, <2>6 DEF Destroy
  <2>7. QED
    BY <2>3, <2>4, <2>5, <2>6, WhatChanges
<1>5. QED
  BY <1>3, <1>4

\* The code of a library that no plugin is loaded from is not what a call has
\* left to lose, and a plugin that is unloaded has no tools by then.
LEMMA CodeLastStep ==
  ASSUME BaseInv, ServeInv, CallsKeepTool, CodeGoesLast, OneToolEach, [Next]_vars
  PROVE  CodeGoesLast'
<1>1. SUFFICES ASSUME NEW c \in DOMAIN calls', "code" \in calls'[c].lost
               PROVE  "tool" \in calls'[c].lost
  BY DEF CodeGoesLast
<1>2. c \in DOMAIN calls
  <2>1. SUFFICES ASSUME c \notin DOMAIN calls PROVE FALSE
    OBVIOUS
  <2>2. PICK n \in Names: CallTool(c, n)
    BY <1>1, <2>1, NewCall
  <2>3. QED
    BY <1>1, <2>1, <2>2 DEF CallTool, With
<1>3. calls'[c].owner = calls[c].owner /\ calls[c].lost \subseteq calls'[c].lost
  BY <1>1, <1>2, CallsGoOn
<1>4. CASE "code" \in calls[c].lost
  BY <1>2, <1>3, <1>4 DEF CodeGoesLast
<1>5. CASE "code" \notin calls[c].lost
  <2>1. \/ UnloadClose /\ calls[c].owner = Victim
        \/ ValidateClose /\ calls[c].owner = Validated /\ ~Loaded(Validated)
        \/ LoadFailed /\ calls[c].owner = Entry
    BY <1>1, <1>2, <1>5, CodeTakenBy
  <2>2. ASSUME \/ ValidateClose /\ calls[c].owner = Validated /\ ~Loaded(Validated)
               \/ LoadFailed /\ calls[c].owner = Entry
        PROVE  FALSE
    <3>1. /\ calls[c].owner \in Files /\ ~Loaded(calls[c].owner)
          /\ job.phase # "register"
      BY <2>2, Hands DEF ValidateClose, LoadFailed, Validating, Loading
    <3>2. QED
      BY <1>2, <1>5, <3>1, ServerIsNoFile DEF ServeInv, CallsKeepCode
  <2>3. ASSUME UnloadClose, calls[c].owner = Victim
        PROVE  "tool" \in calls[c].lost
    <3>1. PICK p \in Files: p = Victim /\ p = calls[c].owner
      BY <2>3, Hands DEF UnloadClose
    <3>2. \A n \in Names: ~Serves(p, n)
      BY <2>3, <3>1 DEF UnloadClose, Serves, Range
    <3>3. ~(calls[c].name \in DOMAIN tools /\ tools[calls[c].name] = p)
      <4>1. DOMAIN tools \subseteq Names
        BY TypeParts DEF BaseInv, ToolsOK
      <4>2. QED
        BY <3>2, <4>1 DEF ServeInv, ToolsAreServed
    <3>4. QED
      BY <1>2, <3>1, <3>3 DEF CallsKeepTool
  <2>4. QED
    BY <1>3, <2>1, <2>2, <2>3
<1>6. QED
  BY <1>4, <1>5

\* A call whose code is unmapped has lost its tool before, for libraries as
\* above: an unload unregisters first, and a validation or a load that fails
\* closes the last handle on a library only when no call runs it.
THEOREM CodeIsTakenLast == Spec => []CodeGoesLast
<1>1. CASE OneToolEach
  <2>1. Init => CallsKeepTool /\ CodeGoesLast
    BY DEF Init, CallsKeepTool, CodeGoesLast
  <2>2. /\ BaseInv /\ ServeInv /\ CallsKeepTool /\ CodeGoesLast /\ [Next]_vars
        => CallsKeepTool' /\ CodeGoesLast'
    BY <1>1, KeepToolStep, CodeLastStep
  <2>3. QED
    BY <1>1, <2>1, <2>2, BaseInvHolds, ServeInvHolds, PTL DEF Spec
<1>2. CASE ~OneToolEach
  <2>1. CodeGoesLast
    BY <1>2 DEF CodeGoesLast
  <2>2. QED
    BY <2>1, PTL
<1>3. QED
  BY <1>1, <1>2
=============================================================================
