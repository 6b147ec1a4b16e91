---------------------------- MODULE GmpStackProofs ----------------------------
(***************************************************************************)
(* What holds of every stack of links, whatever the sizes of the tables,   *)
(* of the queues and of Flux's slots and however many tasks send: memory   *)
(* is freed once and not while it is used, frames stay with their link,    *)
(* none is lost, a closing entry has a completion to wait for and an open  *)
(* link is found from its session.                                         *)
(***************************************************************************)
EXTENDS GmpStack, GmpLinkProofs, WellFoundedInduction

------------------------------------------------------------------------------
(* The inductive invariant, in parts *)

HookType == [link : Links \cup {NoLink}, flux : BOOLEAN, closing : BOOLEAN]
CallType == [at : {"idle", "submit", "run", "busy", "failed", "again", "txdone", "cleanup"},
             link : Links \cup {NoLink}, e : Slots, f : Frames \cup {0},
             kind : {"none", "send", "drain", "done"}]
ControlType == [at : {"idle", "register", "close", "unhook", "unlist", "destroy"},
                link : Links \cup {NoLink}, h : SUBSET Slots]

Types ==
    /\ hook \in [Slots -> HookType]
    /\ life \in [Links -> {"none", "alive", "leaving", "freed"}]
    /\ sending \in [Links -> SUBSET Frames] /\ due \subseteq Frames
    /\ mem \in [Frames -> {"none", "live", "freed", "twice"}]
    /\ owner \in [Frames -> Links \cup {NoLink}]
    /\ task \in [Tasks -> CallType]
    /\ control \in ControlType

\* The table: each entry by itself, and no link twice.
Table ==
    /\ entry \in [Slots -> EntryType]
    /\ \A x \in Slots : Sound(entry[x])
    /\ \A x, y \in Slots : entry[x].key = entry[y].key /\ entry[x].key # NoLink => x = y

\* A link is registered while its session lives, and once.
Registration ==
    /\ \A x \in Slots : entry[x].key # NoLink => life[entry[x].key] # "none"
    /\ control.at # "idle" => control.link \in Links /\ life[control.link] # "none"
    /\ control.at = "register" => Find(control.link) = {}

\* Where a frame can be.  A frame in the hands of a task, in a slot of Flux or due
\* is nowhere else but in in_flight[]; a queued frame is only there.
Holding(t) == task[t].at \in {"submit", "run", "busy", "failed", "txdone"}

HandsOwn ==
    /\ \A t \in Tasks : Holding(t) =>
          /\ task[t].f \in Frames /\ task[t].link \in Links
          /\ mem[task[t].f] = "live" /\ owner[task[t].f] = task[t].link
          /\ task[t].f \notin due
          /\ \A l \in Links : task[t].f \notin sending[l]
          /\ \A x \in Slots : task[t].f \notin Queued(entry[x])
    /\ \A t, u \in Tasks : Holding(t) /\ Holding(u) /\ task[t].f = task[u].f => t = u
SlotsOwn ==
    /\ \A l \in Links : \A f \in sending[l] :
          mem[f] = "live" /\ owner[f] = l /\ f \notin due
    /\ \A f \in due : mem[f] = "live" /\ owner[f] \in Links
EntriesOwn ==
    /\ \A x \in Slots : \A f \in Queued(entry[x]) :
          /\ mem[f] = "live" /\ owner[f] = entry[x].key
          /\ f \notin entry[x].fly /\ f \notin due
          /\ \A l \in Links : f \notin sending[l]
    /\ \A x \in Slots : \A f \in entry[x].fly :
          /\ mem[f] = "live" /\ owner[f] = entry[x].key
          /\ \A t \in Tasks : task[t].at = "submit" => task[t].f # f
FreedOnce == \A f \in Frames : mem[f] # "twice"
Places == HandsOwn /\ SlotsOwn /\ EntriesOwn /\ FreedOnce /\ FramesAccounted

\* A hook is set up before its link is registered and marked closing only when
\* the link is about to be closed.
Hooks ==
    /\ OpenLinksHooked
    /\ \A l \in Links : life[l] = "none" => HookOf(l) = {}
    /\ \A h \in Slots : hook[h].closing =>
          \/ \A x \in Slots : Open(entry[x]) => entry[x].key # hook[h].link
          \/ control.at = "close" /\ control.link = hook[h].link
    /\ control.at = "register" =>
          /\ control.h # {} /\ control.h \subseteq HookByFlux(control.link)
          /\ \A h \in HookOf(control.link) : ~hook[h].closing
    /\ control.at \in {"unhook", "unlist", "destroy"} =>
          \A x \in Slots : Open(entry[x]) => entry[x].key # control.link
    /\ control.at \in {"close", "unhook"} =>
          \A h \in control.h : hook[h].link \in {control.link, NoLink}

IInv == Types /\ Table /\ Registration /\ Places /\ Hooks

------------------------------------------------------------------------------
(* Tables *)

LEMMA LeastIn ==
    ASSUME NEW S, S \subseteq Slots, S # {}
    PROVE  Least(S) \in S
<1>1. S \subseteq Nat
  BY StackConstants DEF Slots
<1>2. PICK x \in S : \A y \in S : ~(<<y, x>> \in OpToRel(<, Nat))
  BY <1>1, NatLessThanWellFounded, WFMin
<1>3. ASSUME NEW y \in S PROVE x <= y
  <2>1. x \in Nat /\ y \in Nat /\ ~(y < x)
    BY <1>1, <1>2 DEF OpToRel
  <2> QED
    BY <2>1
<1> QED
  BY <1>3 DEF Least

\* link_find returns the entry of a link if there is one.
LEMMA FindOne ==
    ASSUME Table, NEW l \in Links
    PROVE  /\ Find(l) # {} => Least(Find(l)) \in Slots /\ entry[Least(Find(l))].key = l
           /\ \A x \in Slots : entry[x].key = l => Find(l) # {} /\ x = Least(Find(l))
<1>1. l # NoLink
  BY LinkConstants DEF NoLink
<1>2. Find(l) \subseteq Slots /\ (Find(l) # {} => Least(Find(l)) \in Find(l))
  BY LeastIn DEF Find
<1> QED
  BY <1>1, <1>2 DEF Find, Table

LEMMA EntryFrames ==
    ASSUME Table
    PROVE  \A x \in Slots : Queued(entry[x]) \subseteq Frames /\ entry[x].fly \subseteq Frames
BY DEF Table, Queued, EntryType

LEMMA RestingCall ==
    ASSUME NEW t \in Tasks, Types
    PROVE  Ended(t) \in CallType /\ Ended(t).at \in {"idle", "cleanup"}
<1>1. task[t] \in CallType
  BY DEF Types
<1>2. 1 \in Slots
  BY StackConstants DEF Slots
<1> QED
  BY <1>1, <1>2 DEF Ended, Resting, CallType, NoLink

LEMMA TaskStepTypes ==
    ASSUME Types, NEW t \in Tasks, NEW c \in CallType, SetTask(t, c)
    PROVE  /\ task' \in [Tasks -> CallType]
           /\ \A u \in Tasks : task'[u] = IF u = t THEN c ELSE task[u]
BY DEF Types, SetTask

LEMMA FreeFramesMem ==
    ASSUME Types, NEW S, mem' = FreeFrames(S), \A f \in S : f \in Frames /\ mem[f] = "live"
    PROVE  /\ mem' \in [Frames -> {"none", "live", "freed", "twice"}]
           /\ \A f \in Frames : mem'[f] = IF f \in S THEN "freed" ELSE mem[f]
BY DEF Types, FreeFrames

------------------------------------------------------------------------------
(* Steps that leave a part alone *)

\* One entry changes, and keeps its link or gives it up.
EntryBecomes(x, g) ==
    /\ entry' = [entry EXCEPT ![x] = g]
    /\ Sound(g) /\ KeyKept(entry[x], g) /\ (Open(g) => Open(entry[x]))

LEMMA EntryStep ==
    ASSUME Table, NEW x \in Slots, NEW g, EntryBecomes(x, g)
    PROVE  /\ Table'
           /\ \A y \in Slots : entry'[y] = IF y = x THEN g ELSE entry[y]
           /\ \A y \in Slots : entry'[y].key \in {entry[y].key, NoLink}
           /\ \A y \in Slots : Open(entry'[y]) =>
                  Open(entry[y]) /\ entry'[y].key = entry[y].key
<1>1. g \in EntryType
  BY DEF EntryBecomes, Sound, Fits
<1>2. \A y \in Slots : entry'[y] = IF y = x THEN g ELSE entry[y]
  BY DEF EntryBecomes, Table
<1>3. g.key \in {entry[x].key, NoLink} /\ (Open(g) => Open(entry[x]) /\ g.key = entry[x].key)
  BY DEF EntryBecomes, KeyKept, Free, Open
<1>4. entry' \in [Slots -> EntryType]
  BY <1>1 DEF EntryBecomes, Table
<1>5. \A y \in Slots : Sound(entry'[y])
  BY <1>2 DEF EntryBecomes, Table
<1>6. \A y \in Slots : entry'[y].key \in {entry[y].key, NoLink}
  BY <1>2, <1>3
<1>7. \A y, z \in Slots : entry'[y].key = entry'[z].key /\ entry'[y].key # NoLink => y = z
  BY <1>6 DEF Table
<1> QED
  BY <1>2, <1>3, <1>4, <1>5, <1>6, <1>7 DEF Table

\* The links of the table only go, and nobody connects or disconnects.
KeysOnlyGo ==
    /\ UNCHANGED <<hook, life, control>>
    /\ \A y \in Slots : entry'[y].key \in {entry[y].key, NoLink}
    /\ \A y \in Slots : Open(entry'[y]) => Open(entry[y]) /\ entry'[y].key = entry[y].key

LEMMA KeysOnlyGoInv ==
    ASSUME Types, Registration, Hooks, KeysOnlyGo
    PROVE  Registration' /\ Hooks'
<1>1. Registration'
  <2>1. \A y \in Slots : entry'[y].key # NoLink => entry'[y].key = entry[y].key
    BY DEF KeysOnlyGo
  <2>2. control.at # "idle" => control.link # NoLink
    BY LinkConstants DEF Registration, NoLink
  <2>3. control.at = "register" => Find(control.link)' = {}
    BY <2>1, <2>2 DEF Registration, KeysOnlyGo, Find
  <2> QED
    BY <2>1, <2>3 DEF Registration, KeysOnlyGo
<1>2. \A l : HookOf(l)' = HookOf(l) /\ HookByFlux(l)' = HookByFlux(l)
  BY DEF KeysOnlyGo, HookOf, HookByFlux
<1>3. OpenLinksHooked'
  BY <1>2 DEF KeysOnlyGo, Hooks, OpenLinksHooked
<1>4. Hooks'
  BY <1>2, <1>3 DEF KeysOnlyGo, Hooks
<1> QED
  BY <1>1, <1>4

\* Nothing that holds a frame changes.
SamePlaces ==
    /\ UNCHANGED <<mem, owner, sending, due>>
    /\ \A t \in Tasks :
          /\ Holding(t)' <=> Holding(t)
          /\ task'[t].at = "submit" <=> task[t].at = "submit"
          /\ Holding(t) => task'[t].f = task[t].f /\ task'[t].link = task[t].link
    /\ \A x \in Slots :
          /\ Queued(entry'[x]) = Queued(entry[x]) /\ entry'[x].fly = entry[x].fly
          /\ Queued(entry[x]) \cup entry[x].fly # {} => entry'[x].key = entry[x].key

LEMMA SamePlacesInv ==
    ASSUME Places, SamePlaces
    PROVE  Places'
<1>1. HandsOwn'
  BY DEF Places, SamePlaces, HandsOwn
<1>2. SlotsOwn'
  BY DEF Places, SamePlaces, SlotsOwn
<1>3. EntriesOwn'
  <2>1. \A x \in Slots : \A f \in Queued(entry'[x]) \cup entry'[x].fly :
            f \in Queued(entry[x]) \cup entry[x].fly /\ entry'[x].key = entry[x].key
    BY DEF SamePlaces
  <2>2. \A t \in Tasks : task'[t].at = "submit" =>
            task[t].at = "submit" /\ task'[t].f = task[t].f
    BY DEF SamePlaces, Holding
  <2> QED
    BY <2>1, <2>2 DEF Places, SamePlaces, EntriesOwn
<1>4. FreedOnce' 
  BY DEF Places, SamePlaces, FreedOnce
<1>5. FramesAccounted'
  BY DEF Places, SamePlaces, FramesAccounted, Holding
<1> QED
  BY <1>1, <1>2, <1>3, <1>4, <1>5 DEF Places

------------------------------------------------------------------------------
(* Where a frame goes *)

\* Where a frame in the hands of a task can be besides.
LEMMA InHand ==
    ASSUME Types, Table, Places, NEW t \in Tasks, Holding(t)
    PROVE  LET f == task[t].f
           IN  /\ f \in Frames /\ mem[f] = "live" /\ f \notin due
               /\ task[t].link \in Links /\ owner[f] = task[t].link
               /\ \A l \in Links : f \notin sending[l]
               /\ \A x \in Slots : f \notin Queued(entry[x])
               /\ \A u \in Tasks : Holding(u) /\ task[u].f = f => u = t
               /\ task[t].at = "submit" => \A x \in Slots : f \notin entry[x].fly
               /\ task[t].at # "submit" =>
                      \E x \in Slots : f \in entry[x].fly /\ entry[x].key = task[t].link
<1> DEFINE f == task[t].f
<1>1. /\ f \in Frames /\ mem[f] = "live" /\ f \notin due
      /\ task[t].link \in Links /\ owner[f] = task[t].link
      /\ \A l \in Links : f \notin sending[l]
      /\ \A x \in Slots : f \notin Queued(entry[x])
      /\ \A u \in Tasks : Holding(u) /\ task[u].f = f => u = t
  BY DEF Places, HandsOwn
<1>2. task[t].at = "submit" => \A x \in Slots : f \notin entry[x].fly
  BY DEF Places, EntriesOwn
<1>3. ASSUME task[t].at # "submit"
      PROVE  \E x \in Slots : f \in entry[x].fly /\ entry[x].key = task[t].link
  <2>1. ~\E u \in Tasks : task[u].f = f /\ task[u].at = "submit"
    BY <1>1, <1>3 DEF Holding
  <2>2. PICK x \in Slots : f \in entry[x].fly
    BY <2>1, <1>1 DEF Places, FramesAccounted
  <2>3. entry[x].key = task[t].link
    BY <2>2, <1>1 DEF Places, EntriesOwn
  <2> QED
    BY <2>2, <2>3
<1> QED
  BY <1>1, <1>2, <1>3

\* What a step that concerns one frame in hand leaves as it is.
Elsewhere(t, f) ==
    /\ task' \in [Tasks -> CallType]
    /\ \A u \in Tasks : u # t => task'[u] = task[u]
    /\ owner' = owner
    /\ \A g \in Frames : g # f => mem'[g] = mem[g]

\* An entry after a step that concerns one frame.
EntriesWithout(f) ==
    \A y \in Slots :
        /\ Queued(entry'[y]) = Queued(entry[y]) /\ entry'[y].fly = entry[y].fly \ {f}
        /\ Queued(entry'[y]) \cup entry'[y].fly # {} => entry'[y].key = entry[y].key

\* A frame in hand is freed.
LEMMA FrameFreed ==
    ASSUME Types, Table, Places, NEW t \in Tasks, Holding(t),
           Elsewhere(t, task[t].f), ~Holding(t)', mem'[task[t].f] = "freed",
           EntriesWithout(task[t].f), UNCHANGED <<sending, due>>
    PROVE  Places'
<1> DEFINE f == task[t].f
<1> HIDE DEF f
<1>1. /\ f \in Frames /\ f \notin due
      /\ \A l \in Links : f \notin sending[l]
      /\ \A x \in Slots : f \notin Queued(entry[x])
      /\ \A u \in Tasks : Holding(u) /\ task[u].f = f => u = t
  BY InHand DEF f
<1>2. mem'[f] = "freed" /\ owner' = owner /\ \A g \in Frames : g # f => mem'[g] = mem[g]
  BY DEF f, Elsewhere
<1>3. \A u \in Tasks : Holding(u)' => u # t /\ Holding(u) /\ task'[u] = task[u] /\ task[u].f # f
  BY <1>1 DEF Elsewhere, Holding
<1>4. \A u \in Tasks : task'[u].at = "submit" => u # t /\ task'[u] = task[u]
  BY DEF Elsewhere, Holding
<1>5. \A y \in Slots : /\ Queued(entry'[y]) = Queued(entry[y])
                       /\ entry'[y].fly = entry[y].fly \ {f}
                       /\ Queued(entry'[y]) \cup entry'[y].fly # {} =>
                              entry'[y].key = entry[y].key
                       /\ Queued(entry[y]) \subseteq Frames /\ entry[y].fly \subseteq Frames
  BY EntryFrames DEF EntriesWithout, f
<1>6. UNCHANGED <<sending, due>>
  OBVIOUS
<1>7. HandsOwn'
  BY <1>2, <1>3, <1>5, <1>6 DEF Places, HandsOwn
<1>8. SlotsOwn'
  BY <1>1, <1>2, <1>6 DEF Places, SlotsOwn, Types
<1>9. EntriesOwn'
  <2>1. \A y \in Slots : \A g \in Queued(entry'[y]) \cup entry'[y].fly :
            g # f /\ g \in Frames /\ entry'[y].key = entry[y].key
    BY <1>1, <1>5
  <2> QED
    BY <2>1, <1>2, <1>4, <1>5, <1>6 DEF Places, EntriesOwn
<1>10. FreedOnce'
  BY <1>2 DEF Places, FreedOnce
<1>11. FramesAccounted'
  <2> SUFFICES ASSUME NEW g \in Frames, mem'[g] = "live"
               PROVE  \/ \E y \in Slots : g \in Queued(entry'[y]) \cup entry'[y].fly
                      \/ \E u \in Tasks : task'[u].f = g /\ task'[u].at = "submit"
    BY DEF FramesAccounted
  <2>1. g # f /\ mem[g] = "live"
    BY <1>2
  <2>2. CASE \E y \in Slots : g \in Queued(entry[y]) \cup entry[y].fly
    BY <2>1, <2>2, <1>5
  <2>3. CASE \E u \in Tasks : task[u].f = g /\ task[u].at = "submit"
    BY <2>1, <2>3 DEF f, Elsewhere
  <2> QED
    BY <2>1, <2>2, <2>3 DEF Places, FramesAccounted
<1> QED
  BY <1>7, <1>8, <1>9, <1>10, <1>11 DEF Places

\* A frame in hand goes to the queue of its link.
LEMMA FrameQueued ==
    ASSUME Types, Table, Places, NEW t \in Tasks, Holding(t),
           Elsewhere(t, task[t].f), ~Holding(t)', mem' = mem,
           NEW x \in Slots, entry[x].key = task[t].link, entry'[x].key = entry[x].key,
           Queued(entry'[x]) = Queued(entry[x]) \cup {task[t].f},
           entry'[x].fly = entry[x].fly \ {task[t].f},
           \A y \in Slots : y # x => entry'[y] = entry[y],
           UNCHANGED <<sending, due>>
    PROVE  Places'
<1> DEFINE f == task[t].f
<1> HIDE DEF f
<1>1. /\ f \in Frames /\ mem[f] = "live" /\ f \notin due /\ owner[f] = entry[x].key
      /\ \A l \in Links : f \notin sending[l]
      /\ \A y \in Slots : f \notin Queued(entry[y])
      /\ \A u \in Tasks : Holding(u) /\ task[u].f = f => u = t
      /\ entry[x].key # NoLink
  BY InHand, LinkConstants DEF f, NoLink
<1>2. \A y \in Slots : f \in entry[y].fly => y = x
  BY <1>1 DEF Places, EntriesOwn, Table
<1>3. \A u \in Tasks : Holding(u)' => u # t /\ Holding(u) /\ task'[u] = task[u] /\ task[u].f # f
  BY <1>1 DEF Elsewhere, Holding
<1>4. \A u \in Tasks : task'[u].at = "submit" =>
          u # t /\ task'[u] = task[u] /\ task[u].f # f
  BY <1>3 DEF Elsewhere, Holding
<1>5. \A y \in Slots : /\ Queued(entry'[y]) = IF y = x THEN Queued(entry[y]) \cup {f}
                                              ELSE Queued(entry[y])
                       /\ entry'[y].fly = entry[y].fly \ {f}
                       /\ entry'[y].key = entry[y].key
  BY <1>2 DEF f
<1>6. UNCHANGED <<sending, due, mem, owner>>
  BY DEF Elsewhere
<1>7. HandsOwn'
  BY <1>3, <1>5, <1>6 DEF Places, HandsOwn
<1>8. SlotsOwn'
  BY <1>6 DEF Places, SlotsOwn
<1>9. EntriesOwn'
  <2>1. \A y \in Slots : \A g \in Queued(entry'[y]) :
            /\ mem[g] = "live" /\ owner[g] = entry[y].key
            /\ g \notin entry'[y].fly /\ g \notin due
            /\ \A l \in Links : g \notin sending[l]
    <3> TAKE y \in Slots
    <3> TAKE g \in Queued(entry'[y])
    <3>1. CASE g = f
      BY <3>1, <1>1, <1>5
    <3>2. CASE g # f
      <4>1. g \in Queued(entry[y]) /\ entry'[y].fly \subseteq entry[y].fly
        BY <3>2, <1>5
      <4> QED
        BY <4>1 DEF Places, EntriesOwn
    <3> QED
      BY <3>1, <3>2
  <2>2. \A y \in Slots : \A g \in entry'[y].fly :
            /\ mem[g] = "live" /\ owner[g] = entry[y].key
            /\ \A u \in Tasks : task'[u].at = "submit" => task'[u].f # g
    BY <1>4, <1>5 DEF Places, EntriesOwn
  <2> QED
    BY <2>1, <2>2, <1>5, <1>6 DEF EntriesOwn
<1>10. FreedOnce'
  BY <1>6 DEF Places, FreedOnce
<1>11. FramesAccounted'
  <2> SUFFICES ASSUME NEW g \in Frames, mem[g] = "live"
               PROVE  \/ \E y \in Slots : g \in Queued(entry'[y]) \cup entry'[y].fly
                      \/ \E u \in Tasks : task'[u].f = g /\ task'[u].at = "submit"
    BY <1>6 DEF FramesAccounted
  <2>1. CASE g = f
    BY <2>1, <1>5
  <2>2. CASE g # f /\ \E y \in Slots : g \in Queued(entry[y]) \cup entry[y].fly
    BY <2>2, <1>5
  <2>3. CASE g # f /\ \E u \in Tasks : task[u].f = g /\ task[u].at = "submit"
    BY <2>3 DEF f, Elsewhere
  <2> QED
    BY <2>1, <2>2, <2>3 DEF Places, FramesAccounted
<1> QED
  BY <1>7, <1>8, <1>9, <1>10, <1>11 DEF Places

\* The head of a link's queue comes into the hands of a task that has no other
\* frame.
LEMMA FrameDrained ==
    ASSUME Types, Table, Places, NEW t \in Tasks, ~Holding(t),
           NEW x \in Slots, NEW f \in Queued(entry[x]), entry[x].key \in Links,
           Elsewhere(t, f), mem' = mem,
           task'[t].at = "run", task'[t].f = f, task'[t].link = entry[x].key,
           entry'[x].key = entry[x].key,
           Queued(entry'[x]) = Queued(entry[x]) \ {f},
           entry'[x].fly = entry[x].fly \cup {f},
           \A y \in Slots : y # x => entry'[y] = entry[y],
           UNCHANGED <<sending, due>>
    PROVE  Places'
<1>1. /\ f \in Frames /\ mem[f] = "live" /\ f \notin due /\ owner[f] = entry[x].key
      /\ \A l \in Links : f \notin sending[l]
      /\ \A u \in Tasks : Holding(u) => task[u].f # f
  BY EntryFrames DEF Places, EntriesOwn, HandsOwn
<1>2. \A y \in Slots : f \in Queued(entry[y]) => y = x
  BY LinkConstants DEF Places, EntriesOwn, Table, NoLink
<1>3. \A u \in Tasks : Holding(u)' =>
          u = t \/ (u # t /\ Holding(u) /\ task'[u] = task[u])
  BY DEF Elsewhere, Holding
<1>4. \A u \in Tasks : task'[u].at = "submit" =>
          u # t /\ task'[u] = task[u] /\ task[u].f # f
  BY <1>1 DEF Elsewhere, Holding
<1>5. \A y \in Slots : /\ Queued(entry'[y]) = Queued(entry[y]) \ {f}
                       /\ entry'[y].fly = IF y = x THEN entry[y].fly \cup {f}
                                          ELSE entry[y].fly
                       /\ entry'[y].key = entry[y].key
  BY <1>2
<1>6. UNCHANGED <<sending, due, mem, owner>>
  BY DEF Elsewhere
<1>7. HandsOwn'
  <2>1. ASSUME NEW u \in Tasks, Holding(u)'
        PROVE  /\ task'[u].f \in Frames /\ task'[u].link \in Links
               /\ mem[task'[u].f] = "live" /\ owner[task'[u].f] = task'[u].link
               /\ task'[u].f \notin due
               /\ \A l \in Links : task'[u].f \notin sending[l]
               /\ \A y \in Slots : task'[u].f \notin Queued(entry'[y])
    <3>1. CASE u = t
      BY <3>1, <1>1, <1>5
    <3>2. CASE u # t
      BY <3>2, <2>1, <1>3, <1>5 DEF Places, HandsOwn
    <3> QED
      BY <3>1, <3>2
  <2>2. \A u, v \in Tasks : Holding(u)' /\ Holding(v)' /\ task'[u].f = task'[v].f => u = v
    BY <1>1, <1>3 DEF Places, HandsOwn
  <2> QED
    BY <2>1, <2>2, <1>6 DEF HandsOwn
<1>8. SlotsOwn'
  BY <1>6 DEF Places, SlotsOwn
<1>9. EntriesOwn'
  <2>1. \A y \in Slots : \A g \in Queued(entry'[y]) :
            /\ g \in Queued(entry[y]) /\ g \notin entry'[y].fly
    BY <1>5 DEF Places, EntriesOwn
  <2>2. \A y \in Slots : \A g \in Queued(entry'[y]) :
            /\ mem[g] = "live" /\ owner[g] = entry[y].key /\ g \notin due
            /\ \A l \in Links : g \notin sending[l]
    BY <2>1 DEF Places, EntriesOwn
  <2>3. ASSUME NEW y \in Slots, NEW g \in entry'[y].fly
        PROVE  /\ mem[g] = "live" /\ owner[g] = entry[y].key
               /\ \A u \in Tasks : task'[u].at = "submit" => task'[u].f # g
    <3>1. CASE g = f /\ y = x
      BY <3>1, <1>1, <1>4
    <3>2. CASE g \in entry[y].fly
      BY <3>2, <1>4 DEF Places, EntriesOwn
    <3> QED
      BY <3>1, <3>2, <1>5
  <2> QED
    BY <2>1, <2>2, <2>3, <1>5, <1>6 DEF EntriesOwn
<1>10. FreedOnce'
  BY <1>6 DEF Places, FreedOnce
<1>11. FramesAccounted'
  <2> SUFFICES ASSUME NEW g \in Frames, mem[g] = "live"
               PROVE  \/ \E y \in Slots : g \in Queued(entry'[y]) \cup entry'[y].fly
                      \/ \E u \in Tasks : task'[u].f = g /\ task'[u].at = "submit"
    BY <1>6 DEF FramesAccounted
  <2>1. CASE g = f
    BY <2>1, <1>5
  <2>2. CASE g # f /\ \E y \in Slots : g \in Queued(entry[y]) \cup entry[y].fly
    BY <2>2, <1>5
  <2>3. CASE g # f /\ \E u \in Tasks : task[u].f = g /\ task[u].at = "submit"
    BY <2>3 DEF Elsewhere, Holding
  <2> QED
    BY <2>1, <2>2, <2>3 DEF Places, FramesAccounted
<1> QED
  BY <1>7, <1>8, <1>9, <1>10, <1>11 DEF Places

\* A frame in hand is noted in flight.
LEMMA FrameTracked ==
    ASSUME Types, Table, Places, NEW t \in Tasks, task[t].at = "submit",
           NEW x \in Slots, entry[x].key = task[t].link,
           task'[t].at = "run", task'[t].f = task[t].f, task'[t].link = task[t].link,
           \A u \in Tasks : u # t => task'[u] = task[u],
           entry'[x].key = entry[x].key, Queued(entry'[x]) = Queued(entry[x]),
           entry'[x].fly = entry[x].fly \cup {task[t].f},
           \A y \in Slots : y # x => entry'[y] = entry[y],
           UNCHANGED <<mem, owner, sending, due>>
    PROVE  Places'
<1> DEFINE f == task[t].f
<1> HIDE DEF f
<1>1. Holding(t)
  BY DEF Holding
<1>2. /\ f \in Frames /\ mem[f] = "live" /\ owner[f] = entry[x].key
      /\ \A y \in Slots : f \notin Queued(entry[y])
      /\ \A u \in Tasks : Holding(u) /\ task[u].f = f => u = t
  BY <1>1, InHand DEF f
<1>3. \A u \in Tasks : (Holding(u)' <=> Holding(u)) /\ task'[u].f = task[u].f
                       /\ task'[u].link = task[u].link
  BY <1>1 DEF Holding
<1>4. \A u \in Tasks : task'[u].at = "submit" =>
          task[u].at = "submit" /\ u # t /\ task[u].f # f
  BY <1>2 DEF Holding
<1>5. \A y \in Slots : /\ Queued(entry'[y]) = Queued(entry[y])
                       /\ entry'[y].fly = IF y = x THEN entry[y].fly \cup {f}
                                          ELSE entry[y].fly
                       /\ entry'[y].key = entry[y].key
  BY DEF f
<1>6. HandsOwn'
  BY <1>3, <1>5 DEF Places, HandsOwn
<1>7. SlotsOwn' /\ FreedOnce'
  BY DEF Places, SlotsOwn, FreedOnce
<1>8. EntriesOwn'
  <2>1. \A y \in Slots : \A g \in Queued(entry'[y]) :
            /\ mem[g] = "live" /\ owner[g] = entry[y].key
            /\ g \notin entry'[y].fly /\ g \notin due
            /\ \A l \in Links : g \notin sending[l]
    <3>1. \A y \in Slots : \A g \in Queued(entry'[y]) :
              g \in Queued(entry[y]) /\ g # f
      BY <1>2, <1>5
    <3>2. \A y \in Slots : \A g \in Queued(entry'[y]) : g \notin entry'[y].fly
      <4> TAKE y \in Slots
      <4> TAKE g \in Queued(entry'[y])
      <4>1. g \notin entry[y].fly
        BY <3>1 DEF Places, EntriesOwn
      <4> QED
        BY <4>1, <3>1, <1>5
    <3> QED
      BY <3>1, <3>2 DEF Places, EntriesOwn
  <2>2. \A y \in Slots : \A g \in entry'[y].fly :
            /\ mem[g] = "live" /\ owner[g] = entry[y].key
            /\ \A u \in Tasks : task'[u].at = "submit" => task'[u].f # g
    <3> TAKE y \in Slots
    <3> TAKE g \in entry'[y].fly
    <3>1. CASE g \in entry[y].fly
      BY <3>1, <1>3, <1>4 DEF Places, EntriesOwn
    <3>2. CASE g = f /\ y = x
      BY <3>2, <1>2, <1>3, <1>4
    <3> QED
      BY <3>1, <3>2, <1>5
  <2> QED
    BY <2>1, <2>2, <1>5 DEF EntriesOwn
<1>9. FramesAccounted'
  <2> SUFFICES ASSUME NEW g \in Frames, mem[g] = "live"
               PROVE  \/ \E y \in Slots : g \in Queued(entry'[y]) \cup entry'[y].fly
                      \/ \E u \in Tasks : task'[u].f = g /\ task'[u].at = "submit"
    BY DEF FramesAccounted
  <2>1. CASE g = f
    BY <2>1, <1>5
  <2>2. CASE g # f /\ \E y \in Slots : g \in Queued(entry[y]) \cup entry[y].fly
    BY <2>2, <1>5
  <2>3. CASE g # f /\ \E u \in Tasks : task[u].f = g /\ task[u].at = "submit"
    BY <2>3 DEF f
  <2> QED
    BY <2>1, <2>2, <2>3 DEF Places, FramesAccounted
<1> QED
  BY <1>6, <1>7, <1>8, <1>9 DEF Places

\* A frame in flight leaves the hands of a task, for a slot of Flux (l is its link)
\* or, when the session is gone, for good.
LEMMA FrameLeft ==
    ASSUME Types, Table, Places, NEW t \in Tasks, Holding(t), task[t].at # "submit",
           Elsewhere(t, task[t].f), ~Holding(t)', UNCHANGED <<mem, entry, due>>,
           \A l \in Links : sending'[l] \subseteq
               sending[l] \cup (IF l = task[t].link THEN {task[t].f} ELSE {})
    PROVE  Places'
<1> DEFINE f == task[t].f
<1> HIDE DEF f
<1>1. /\ f \in Frames /\ mem[f] = "live" /\ f \notin due /\ owner[f] = task[t].link
      /\ \A y \in Slots : f \notin Queued(entry[y])
      /\ \A u \in Tasks : Holding(u) /\ task[u].f = f => u = t
  BY InHand DEF f
<1>2. \A u \in Tasks : Holding(u)' => u # t /\ Holding(u) /\ task'[u] = task[u] /\ task[u].f # f
  BY <1>1 DEF Elsewhere, Holding
<1>3. \A u \in Tasks : task'[u].at = "submit" <=> task[u].at = "submit"
  BY DEF Elsewhere, Holding
<1>4. \A l \in Links : \A g \in sending'[l] :
          g \in sending[l] \/ (g = f /\ l = task[t].link)
  BY DEF f
<1>5. UNCHANGED <<mem, entry, due, owner>>
  BY DEF Elsewhere
<1>6. \A l \in Links : sending'[l] \subseteq Frames
  BY <1>1, <1>4 DEF Types
<1>7. HandsOwn'
  BY <1>2, <1>4, <1>5 DEF Places, HandsOwn
<1>8. SlotsOwn'
  BY <1>1, <1>4, <1>5 DEF Places, SlotsOwn
<1>9. EntriesOwn'
  <2>1. \A y \in Slots : \A g \in Queued(entry[y]) : \A l \in Links : g \notin sending'[l]
    BY <1>1, <1>4 DEF Places, EntriesOwn
  <2>2. \A u \in Tasks : task'[u].at = "submit" => task'[u] = task[u]
    BY <1>2, <1>3 DEF Holding
  <2> QED
    BY <2>1, <2>2, <1>3, <1>5 DEF Places, EntriesOwn
<1>10. FreedOnce'
  BY <1>5 DEF Places, FreedOnce
<1>11. FramesAccounted'
  <2>1. \A u \in Tasks : task[u].at = "submit" => task'[u].at = "submit" /\ task'[u] = task[u]
    BY <1>3 DEF Elsewhere
  <2> QED
    BY <2>1, <1>5 DEF Places, FramesAccounted
<1> QED
  BY <1>7, <1>8, <1>9, <1>10, <1>11 DEF Places

------------------------------------------------------------------------------
(* The steps *)

LEMMA InitIInv == Init => IInv
<1> SUFFICES ASSUME Init PROVE IInv
  OBVIOUS
<1>1. 1 \in Slots /\ NoLink \notin Links
  BY StackConstants, LinkConstants DEF Slots, NoLink
<1>2. Types
  BY <1>1 DEF Init, Types, HookType, NoHook, CallType, Resting, ControlType, NoControl
<1>3. \A x \in Slots : entry[x] = Free /\ Sound(entry[x]) /\ Queued(entry[x]) = {}
                       /\ entry[x].fly = {} /\ entry[x].key = NoLink /\ ~Open(entry[x])
  BY FreeSound DEF Init, Free, Open
<1>4. Table
  BY <1>3, FreeSound DEF Table, Init, Sound, Fits
<1>5. Registration
  BY <1>3 DEF Registration, Init, NoControl
<1>6. \A t \in Tasks : ~Holding(t)
  BY DEF Init, Holding, Resting
<1>7. Places
  BY <1>3, <1>6 DEF Init, Places, HandsOwn, SlotsOwn, EntriesOwn, FreedOnce,
     FramesAccounted, Holding
<1>8. Hooks
  BY <1>1, <1>3 DEF Init, Hooks, OpenLinksHooked, HookOf, NoHook, NoControl
<1> QED
  BY <1>2, <1>4, <1>5, <1>7, <1>8 DEF IInv

\* A frame is built for the link that was found.
LEMMA BuildIInv ==
    ASSUME IInv, NEW t \in Tasks, NEW l \in Links, NEW f \in Frames, Build(t, l, f)
    PROVE  IInv'
<1> USE DEF IInv
<1>1. PICK x \in Find(l) :
          Open(entry[x]) /\ SetTask(t, Call("submit", l, x, f, "send"))
  BY DEF Build
<1> DEFINE c == Call("submit", l, x, f, "send")
<1>2. c \in CallType /\ c.at = "submit" /\ c.f = f /\ c.link = l
  BY <1>1 DEF Call, CallType, Find
<1>3. /\ task' \in [Tasks -> CallType]
      /\ \A u \in Tasks : task'[u] = IF u = t THEN c ELSE task[u]
  BY <1>1, <1>2, TaskStepTypes
<1> HIDE DEF c
<1>4. /\ mem[f] = "none" /\ ~Holding(t)
      /\ mem' \in [Frames -> {"none", "live", "freed", "twice"}]
      /\ owner' \in [Frames -> Links \cup {NoLink}]
      /\ \A g \in Frames : /\ mem'[g] = IF g = f THEN "live" ELSE mem[g]
                           /\ owner'[g] = IF g = f THEN l ELSE owner[g]
  BY DEF Build, Answers, Types, Holding
<1>5. UNCHANGED <<entry, hook, life, sending, due, control>>
  BY DEF Build
<1>6. Types'
  BY <1>3, <1>4, <1>5 DEF Types
<1>7. /\ \A u \in Tasks : Holding(u)' <=> Holding(u) \/ u = t
      /\ \A u \in Tasks : task'[u].at = "submit" <=> task[u].at = "submit" \/ u = t
  BY <1>2, <1>3, <1>4 DEF Holding
<1>8. Table' /\ KeysOnlyGo
  BY <1>5 DEF Table, KeysOnlyGo
<1>9. /\ \A y \in Slots : f \notin Queued(entry[y]) /\ f \notin entry[y].fly
      /\ \A k \in Links : f \notin sending[k]
      /\ f \notin due /\ \A u \in Tasks : Holding(u) => task[u].f # f
  BY <1>4 DEF Places, HandsOwn, SlotsOwn, EntriesOwn
<1>10. HandsOwn'
  BY <1>2, <1>3, <1>4, <1>5, <1>7, <1>9 DEF Places, HandsOwn
<1>11. SlotsOwn'
  BY <1>4, <1>5, <1>9 DEF Places, SlotsOwn, Types
<1>12. EntriesOwn'
  <2>2. \A y \in Slots : \A g \in Queued(entry[y]) \cup entry[y].fly :
            mem'[g] = mem[g] /\ owner'[g] = owner[g]
    BY EntryFrames, <1>4, <1>9
  <2>3. \A y \in Slots : \A g \in entry[y].fly :
            \A u \in Tasks : task'[u].at = "submit" => task'[u].f # g
    BY <1>2, <1>3, <1>7, <1>9 DEF Places, EntriesOwn
  <2> QED
    BY <2>2, <2>3, <1>5 DEF Places, EntriesOwn
<1>13. FreedOnce'
  BY <1>4 DEF Places, FreedOnce
<1>14. FramesAccounted'
  <2> SUFFICES ASSUME NEW g \in Frames, mem'[g] = "live"
               PROVE  \/ \E y \in Slots : g \in Queued(entry[y]) \cup entry[y].fly
                      \/ \E u \in Tasks : task'[u].f = g /\ task'[u].at = "submit"
    BY <1>5 DEF FramesAccounted
  <2>1. CASE g = f
    BY <2>1, <1>2, <1>3
  <2>2. CASE g # f
    BY <2>2, <1>3, <1>4, <1>7 DEF Places, FramesAccounted, Holding
  <2> QED
    BY <2>1, <2>2
<1> QED
  BY <1>6, <1>8, <1>10, <1>11, <1>12, <1>13, <1>14, KeysOnlyGoInv DEF Places

\* The end of a call takes nothing with it.
LEMMA EndedTask ==
    ASSUME Types, NEW t \in Tasks, SetTask(t, Ended(t))
    PROVE  /\ task' \in [Tasks -> CallType] /\ ~Holding(t)'
           /\ \A u \in Tasks : u # t => task'[u] = task[u]
BY RestingCall, TaskStepTypes DEF Holding

\* link_tx_submit_locked.
LEMMA SubmitFrameIInv ==
    ASSUME IInv, NEW t \in Tasks, SubmitFrame(t)
    PROVE  IInv'
<1> DEFINE c == task[t]
           x == c.e
           e == entry[x]
           can == SendIdle(e.key)
<1> USE DEF IInv
<1>1. /\ c \in CallType /\ c.at = "submit" /\ x \in Slots
      /\ Holding(t) /\ Sound(e)
      /\ UNCHANGED <<hook, life, sending, due, owner, control>>
  BY DEF SubmitFrame, Types, CallType, Holding, Table
<1>2. /\ c.f \in Frames /\ mem[c.f] = "live"
      /\ \A y \in Slots : c.f \notin Queued(entry[y]) /\ c.f \notin entry[y].fly
  BY <1>1, InHand
<1>3. ASSUME UNCHANGED entry, mem' = FreeFrames({c.f}), SetTask(t, Ended(t))
      PROVE  IInv'
  <2>1. /\ mem' \in [Frames -> {"none", "live", "freed", "twice"}]
        /\ \A g \in Frames : mem'[g] = IF g = c.f THEN "freed" ELSE mem[g]
    <3>1. \A g \in {c.f} : g \in Frames /\ mem[g] = "live"
      BY <1>2
    <3> QED
      BY <3>1, <1>3, FreeFramesMem
  <2>2. Elsewhere(t, c.f) /\ ~Holding(t)'
    BY <1>1, <1>3, <2>1, EndedTask DEF Elsewhere
  <2>3. EntriesWithout(c.f)
    BY <1>2, <1>3 DEF EntriesWithout
  <2>4. Places'
    BY <1>1, <1>2, <2>1, <2>2, <2>3, FrameFreed
  <2>5. Types' /\ Table' /\ KeysOnlyGo
    BY <1>1, <1>3, <2>1, <2>2 DEF Types, Table, KeysOnlyGo, Elsewhere
  <2> QED
    BY <2>4, <2>5, KeysOnlyGoInv
<1>4. ASSUME ~(Moved(c) \/ ~Open(e)), entry' = [entry EXCEPT ![x] = Submit(e, c.f, can)]
      PROVE  /\ Table' /\ KeysOnlyGo /\ e.key = c.link /\ e.key \in Links
             /\ \A y \in Slots : y # x => entry'[y] = entry[y]
             /\ entry'[x] = Submit(e, c.f, can) /\ entry'[x].key = e.key
  <2>1. Open(e) /\ e.key = c.link
    BY <1>4 DEF Moved
  <2>2. Sound(Submit(e, c.f, can)) /\ Submit(e, c.f, can).key = e.key
    BY <1>1, <1>2, <2>1, SubmitSound
  <2>3. EntryBecomes(x, Submit(e, c.f, can))
    BY <1>4, <2>1, <2>2 DEF EntryBecomes, KeyKept
  <2>4. e.key \in Links
    BY <1>1, <2>1, InHand
  <2> HIDE DEF x
  <2> QED
    BY <1>1, <2>1, <2>2, <2>3, <2>4, EntryStep DEF KeysOnlyGo
<1>5. CASE Moved(c) \/ ~Open(e)
  BY <1>3, <1>5 DEF SubmitFrame
<1>6. CASE ~(Moved(c) \/ ~Open(e)) /\ SubmitSends(e, can)
  <2>1. /\ entry' = [entry EXCEPT ![x] = Submit(e, c.f, can)]
        /\ SetTask(t, [c EXCEPT !.at = "run", !.link = e.key]) /\ UNCHANGED mem
    BY <1>6 DEF SubmitFrame
  <2>2. /\ Queued(entry'[x]) = Queued(e) /\ entry'[x].fly = e.fly \cup {c.f}
    BY <1>1, <1>2, <1>4, <1>6, <2>1, SubmitSound
  <2> DEFINE d == [c EXCEPT !.at = "run", !.link = e.key]
  <2>3. d \in CallType /\ d.at = "run" /\ d.f = c.f /\ d.link = c.link
    BY <1>1, <1>4, <1>6, <2>1 DEF CallType
  <2> HIDE DEF d
  <2>4. /\ task' \in [Tasks -> CallType]
        /\ \A u \in Tasks : task'[u] = IF u = t THEN d ELSE task[u]
    BY <2>1, <2>3, TaskStepTypes DEF d
  <2>5. Types' /\ Table' /\ KeysOnlyGo
    BY <1>1, <1>4, <1>6, <2>1, <2>4 DEF Types
  <2>6. Places'
    <3>1. /\ entry[x].key = task[t].link /\ entry'[x].key = entry[x].key
          /\ \A y \in Slots : y # x => entry'[y] = entry[y]
      BY <1>4, <1>6, <2>1
    <3>2. /\ task'[t].at = "run" /\ task'[t].f = task[t].f /\ task'[t].link = task[t].link
          /\ \A u \in Tasks : u # t => task'[u] = task[u]
      BY <2>3, <2>4
    <3> QED
      BY <1>1, <2>1, <2>2, <3>1, <3>2, FrameTracked
  <2> QED
    BY <2>5, <2>6, KeysOnlyGoInv
<1>7. CASE ~(Moved(c) \/ ~Open(e)) /\ ~SubmitSends(e, can) /\ SubmitQueues(e, can)
  <2>1. /\ entry' = [entry EXCEPT ![x] = Submit(e, c.f, can)]
        /\ SetTask(t, Ended(t)) /\ UNCHANGED mem
    BY <1>7 DEF SubmitFrame
  <2>2. /\ Queued(entry'[x]) = Queued(e) \cup {c.f} /\ entry'[x].fly = e.fly
    BY <1>1, <1>2, <1>4, <1>7, <2>1, SubmitSound
  <2>3. Elsewhere(t, c.f) /\ ~Holding(t)'
    BY <1>1, <2>1, EndedTask DEF Elsewhere
  <2>4. Types' /\ Table' /\ KeysOnlyGo
    BY <1>1, <1>4, <1>7, <2>1, <2>3 DEF Types, Elsewhere
  <2>5. entry'[x].fly = entry[x].fly \ {c.f}
    BY <1>1, <1>2, <2>2
  <2>6. Places'
    BY <1>1, <1>4, <1>7, <2>1, <2>2, <2>3, <2>5, FrameQueued
  <2> QED
    BY <2>4, <2>6, KeysOnlyGoInv
<1>8. CASE ~(Moved(c) \/ ~Open(e)) /\ ~SubmitSends(e, can) /\ ~SubmitQueues(e, can)
  <2>1. entry' = entry
    <3>1. entry' = [entry EXCEPT ![x] = Submit(e, c.f, can)] /\ Submit(e, c.f, can) = e
      BY <1>1, <1>2, <1>8, SubmitSound DEF SubmitFrame
    <3> QED
      BY <3>1 DEF Table
  <2> QED
    BY <1>3, <1>8, <2>1 DEF SubmitFrame
<1> QED
  BY <1>5, <1>6, <1>7, <1>8

\* Where a send of flux_session_send leaves the task.
LEMMA AfterSend ==
    ASSUME Types, NEW t \in Tasks,
           SetTask(t, IF task[t].kind = "send" THEN Ended(t) ELSE [task[t] EXCEPT !.at = "again"])
    PROVE  /\ task' \in [Tasks -> CallType] /\ ~Holding(t)'
           /\ \A u \in Tasks : u # t => task'[u] = task[u]
<1>1. [task[t] EXCEPT !.at = "again"] \in CallType
      /\ [task[t] EXCEPT !.at = "again"].at = "again"
  BY DEF Types, CallType
<1> DEFINE d == IF task[t].kind = "send" THEN Ended(t) ELSE [task[t] EXCEPT !.at = "again"]
<1>2. d \in CallType /\ d.at \in {"idle", "cleanup", "again"}
  BY <1>1, RestingCall
<1> HIDE DEF d
<1>3. SetTask(t, d)
  BY DEF d
<1> QED
  BY <1>2, <1>3, TaskStepTypes DEF Holding

\* flux_session_send.
LEMMA RunIInv ==
    ASSUME IInv, NEW t \in Tasks, Run(t)
    PROVE  IInv'
<1> DEFINE c == task[t]
           Go == IF c.kind = "send" THEN Ended(t) ELSE [c EXCEPT !.at = "again"]
<1> USE DEF IInv
<1>1. /\ c \in CallType /\ c.at = "run" /\ Holding(t)
      /\ UNCHANGED <<entry, mem, hook, life, due, owner, control>>
  BY DEF Run, Types, Holding
<1>2. c.f \in Frames /\ c.link \in Links
  BY <1>1, InHand
<1>3. Table' /\ KeysOnlyGo
  BY <1>1 DEF Table, KeysOnlyGo
<1>4. ASSUME SetTask(t, Go),
             \A l \in Links : sending'[l] =
                 sending[l] \cup (IF l = c.link /\ SendIdle(l) THEN {c.f} ELSE {})
             \/ sending'[l] = sending[l],
             sending' \in [Links -> SUBSET Frames]
      PROVE  IInv'
  <2>1. /\ task' \in [Tasks -> CallType] /\ ~Holding(t)'
        /\ \A u \in Tasks : u # t => task'[u] = task[u]
    BY <1>4, AfterSend
  <2>2. Elsewhere(t, c.f)
    BY <1>1, <2>1 DEF Elsewhere
  <2>3. \A l \in Links : sending'[l] \subseteq
            sending[l] \cup (IF l = task[t].link THEN {task[t].f} ELSE {})
    BY <1>4
  <2>4. Places'
    BY <1>1, <2>1, <2>2, <2>3, FrameLeft
  <2>5. Types'
    BY <1>1, <1>4, <2>1 DEF Types
  <2> QED
    BY <1>3, <2>4, <2>5, KeysOnlyGoInv
<1>5. ASSUME NEW at \in {"busy", "failed"}, SetTask(t, [c EXCEPT !.at = at]), UNCHANGED sending
      PROVE  IInv'
  <2> DEFINE d == [c EXCEPT !.at = at]
  <2>1. d \in CallType /\ d.at = at /\ d.f = c.f /\ d.link = c.link
    BY <1>1 DEF CallType
  <2> HIDE DEF d
  <2>2. /\ task' \in [Tasks -> CallType]
        /\ \A u \in Tasks : task'[u] = IF u = t THEN d ELSE task[u]
    BY <1>5, <2>1, TaskStepTypes DEF d
  <2>3. SamePlaces
    BY <1>1, <1>5, <2>1, <2>2 DEF SamePlaces, Holding
  <2>4. Types'
    BY <1>1, <1>5, <2>2 DEF Types
  <2> QED
    BY <1>3, <2>3, <2>4, SamePlacesInv, KeysOnlyGoInv
<1>6. CASE SendIdle(c.link) /\ sending' = [sending EXCEPT ![c.link] = @ \cup {c.f}]
           /\ SetTask(t, Go)
  <2>1. /\ sending' \in [Links -> SUBSET Frames]
        /\ \A l \in Links : sending'[l] =
               sending[l] \cup (IF l = c.link /\ SendIdle(l) THEN {c.f} ELSE {})
    BY <1>2, <1>6 DEF Types
  <2> QED
    BY <1>4, <1>6, <2>1
<1>7. CASE SetTask(t, Go) /\ UNCHANGED sending
  BY <1>4, <1>7 DEF Types
<1>8. CASE SetTask(t, [c EXCEPT !.at = "busy"]) /\ UNCHANGED sending
  BY <1>5, <1>8
<1>9. CASE SetTask(t, [c EXCEPT !.at = "failed"]) /\ UNCHANGED sending
  BY <1>5, <1>9
<1> QED
  BY <1>6, <1>7, <1>8, <1>9 DEF Run

\* link_finish_failed_send.
LEMMA FinishFailedIInv ==
    ASSUME IInv, NEW t \in Tasks, FinishFailed(t)
    PROVE  IInv'
<1> DEFINE c == task[t]
           busy == c.at = "busy"
           x == Least(Find(c.link))
           g == FailedSend(entry[x], c.f, busy)
<1> USE DEF IInv
<1>1. /\ c \in CallType /\ c.at \in {"busy", "failed"} /\ Holding(t)
      /\ UNCHANGED <<hook, life, sending, due, owner, control>>
  BY DEF FinishFailed, Types, Holding
<1>2. /\ c.f \in Frames /\ c.link \in Links /\ mem[c.f] = "live"
      /\ \A y \in Slots : c.f \notin Queued(entry[y])
      /\ \E y \in Slots : c.f \in entry[y].fly /\ entry[y].key = c.link
  BY <1>1, InHand
<1>3. /\ Find(c.link) # {} /\ x \in Slots /\ entry[x].key = c.link
      /\ c.f \in entry[x].fly /\ \A y \in Slots : c.f \in entry[y].fly => y = x
  BY <1>1, <1>2, FindOne DEF Places, EntriesOwn, HandsOwn
<1>4. /\ entry' = [entry EXCEPT ![x] = g]
      /\ mem' = IF Requeues(entry[x], busy) THEN mem ELSE FreeFrames({c.f})
      /\ SetTask(t, IF c.kind = "send" THEN Ended(t) ELSE [c EXCEPT !.at = "again"])
  BY <1>3 DEF FinishFailed
<1>5. /\ Sound(g) /\ KeyKept(entry[x], g) /\ g.fly = entry[x].fly \ {c.f}
      /\ Requeues(entry[x], busy) =>
             Queued(g) = Queued(entry[x]) \cup {c.f} /\ g.key = entry[x].key
      /\ ~Requeues(entry[x], busy) => Queued(g) = Queued(entry[x])
      /\ (Open(g) <=> Open(entry[x]))
  <2> HIDE DEF x, busy
  <2>1. Sound(entry[x]) /\ c.f \notin Queued(entry[x])
    BY <1>2, <1>3 DEF Table
  <2>2. busy \in BOOLEAN
    BY DEF busy
  <2> QED
    BY <1>2, <2>1, <2>2, FailedSendSound
<1> HIDE DEF g
<1>6. Table' /\ KeysOnlyGo /\ \A y \in Slots : entry'[y] = IF y = x THEN g ELSE entry[y]
  <2> HIDE DEF x
  <2>1. EntryBecomes(x, g)
    BY <1>4, <1>5 DEF EntryBecomes
  <2> QED
    BY <1>1, <1>3, <2>1, EntryStep DEF KeysOnlyGo
<1>7. /\ task' \in [Tasks -> CallType] /\ ~Holding(t)'
      /\ \A u \in Tasks : u # t => task'[u] = task[u]
  BY <1>4, AfterSend
<1>8. CASE Requeues(entry[x], busy)
  <2>1. Types' /\ Elsewhere(t, c.f)
    BY <1>1, <1>4, <1>7, <1>8 DEF Types, Elsewhere
  <2>2. /\ entry'[x].key = entry[x].key /\ Queued(entry'[x]) = Queued(entry[x]) \cup {c.f}
        /\ entry'[x].fly = entry[x].fly \ {c.f}
        /\ \A y \in Slots : y # x => entry'[y] = entry[y]
    BY <1>3, <1>5, <1>6, <1>8
  <2>3. Places'
    BY <1>1, <1>3, <1>4, <1>7, <1>8, <2>1, <2>2, FrameQueued
  <2> QED
    BY <1>6, <2>1, <2>3, KeysOnlyGoInv
<1>9. CASE ~Requeues(entry[x], busy)
  <2>1. \A f \in {c.f} : f \in Frames /\ mem[f] = "live"
    BY <1>2
  <2>2. /\ mem' \in [Frames -> {"none", "live", "freed", "twice"}]
        /\ \A f \in Frames : mem'[f] = IF f \in {c.f} THEN "freed" ELSE mem[f]
    BY <1>4, <1>9, <2>1, FreeFramesMem
  <2>3. Types' /\ Elsewhere(t, c.f) /\ mem'[c.f] = "freed"
    BY <1>1, <1>2, <1>7, <2>2 DEF Types, Elsewhere
  <2>4. EntriesWithout(c.f)
    <3>1. Queued(Free) = {} /\ Free.fly = {}
      BY FreeSound DEF Free
    <3> QED
      BY <1>3, <1>5, <1>6, <1>9, <3>1 DEF EntriesWithout, KeyKept
  <2>5. Places'
    BY <1>1, <1>7, <2>3, <2>4, FrameFreed
  <2> QED
    BY <1>6, <2>3, <2>5, KeysOnlyGoInv
<1> QED
  BY <1>8, <1>9

\* A task that has no frame in hand goes on without one.
LEMMA EmptyHandedIInv ==
    ASSUME IInv, NEW t \in Tasks, ~Holding(t), ~Holding(t)',
           task' \in [Tasks -> CallType],
           \A u \in Tasks : u # t => task'[u] = task[u],
           UNCHANGED <<entry, mem, hook, life, sending, due, owner, control>>
    PROVE  IInv'
<1>1. SamePlaces
  BY DEF SamePlaces, Holding
<1>2. Types' /\ Table' /\ KeysOnlyGo
  BY DEF IInv, Types, Table, KeysOnlyGo
<1> QED
  BY <1>1, <1>2, SamePlacesInv, KeysOnlyGoInv DEF IInv

\* What a drain makes of the task.
LEMMA DrainCall ==
    ASSUME Types, NEW t \in Tasks, NEW l \in Links, NEW x \in Slots, NEW f \in Frames,
           NEW kind \in {"drain", "done", "send", "none"},
           SetTask(t, Call("run", l, x, f, kind))
    PROVE  /\ task' \in [Tasks -> CallType]
           /\ task'[t].at = "run" /\ task'[t].f = f /\ task'[t].link = l
           /\ \A u \in Tasks : u # t => task'[u] = task[u]
<1> DEFINE d == Call("run", l, x, f, kind)
<1>1. d \in CallType /\ d.at = "run" /\ d.f = f /\ d.link = l
  BY DEF Call, CallType
<1> HIDE DEF d
<1>2. SetTask(t, d)
  BY DEF d
<1> QED
  BY <1>1, <1>2, TaskStepTypes

\* One turn of link_drain_tx_queue.
LEMMA DrainIInv ==
    ASSUME IInv, NEW t \in Tasks, ~Holding(t), NEW x \in Slots,
           NEW kind \in {"drain", "done", "send", "none"},
           Drain(t, x, entry[x].key, entry[x], kind),
           UNCHANGED <<mem, hook, life, sending, due, owner, control>>
    PROVE  IInv'
<1> DEFINE e == entry[x]
           can == SendIdle(e.key)
           f == Head(e.txq)
           g == DrainTurn(e)
<1> USE DEF IInv
<1>1. Sound(e) /\ Fits(e) /\ e.key \in Links \cup {NoLink}
  BY DEF Table, Sound, Fits, EntryType
<1>2. CASE DrainSends(e, can)
  <2>1. /\ entry' = [entry EXCEPT ![x] = g]
        /\ SetTask(t, Call("run", e.key, x, f, kind))
    BY <1>2 DEF Drain
  <2>2. Open(e) /\ e.key \in Links
    BY <1>1, <1>2 DEF DrainSends, Open
  <2>3. /\ Sound(g) /\ g.key = e.key /\ f \in Queued(e) /\ f \in Frames
        /\ Queued(g) = Queued(e) \ {f} /\ g.fly = e.fly \cup {f}
    BY <1>1, <1>2, DrainTurnSound
  <2> HIDE DEF g
  <2>4. EntryBecomes(x, g)
    BY <2>1, <2>2, <2>3 DEF EntryBecomes, KeyKept
  <2>5. /\ Table' /\ KeysOnlyGo
        /\ \A y \in Slots : entry'[y] = IF y = x THEN g ELSE entry[y]
    BY <2>4, EntryStep DEF KeysOnlyGo
  <2>6. /\ task' \in [Tasks -> CallType]
        /\ task'[t].at = "run" /\ task'[t].f = f /\ task'[t].link = e.key
        /\ \A u \in Tasks : u # t => task'[u] = task[u]
    BY <2>1, <2>2, <2>3, DrainCall
  <2>7. Types' /\ Elsewhere(t, f)
    BY <2>6 DEF Types, Elsewhere
  <2>8. /\ entry'[x].key = e.key /\ Queued(entry'[x]) = Queued(e) \ {f}
        /\ entry'[x].fly = e.fly \cup {f}
        /\ \A y \in Slots : y # x => entry'[y] = entry[y]
    BY <2>3, <2>5
  <2>9. Places'
    BY <2>2, <2>3, <2>6, <2>7, <2>8, FrameDrained
  <2> QED
    BY <2>5, <2>7, <2>9, KeysOnlyGoInv
<1>3. CASE ~DrainSends(e, can)
  <2>1. entry' = [entry EXCEPT ![x] = e] /\ SetTask(t, Ended(t))
    BY <1>3 DEF Drain
  <2>2. entry' = entry
    BY <2>1 DEF Table
  <2> QED
    BY <2>1, <2>2, EndedTask, EmptyHandedIInv
<1> QED
  BY <1>2, <1>3

LEMMA PollIInv ==
    ASSUME IInv, NEW x \in Slots, Poll(x)
    PROVE  IInv'
<1>1. "poll" \in Tasks /\ ~Holding("poll")
  BY DEF Tasks, Poll, Holding
<1> QED
  BY <1>1, DrainIInv DEF Poll

LEMMA DrainAgainIInv ==
    ASSUME IInv, NEW t \in Tasks, DrainAgain(t)
    PROVE  IInv'
<1> DEFINE c == task[t]
<1>1. /\ ~Holding(t) /\ c.e \in Slots /\ c.kind \in {"drain", "done", "send", "none"}
      /\ UNCHANGED <<mem, hook, life, sending, due, owner, control>>
  BY DEF DrainAgain, Holding, IInv, Types, CallType
<1>2. CASE entry[c.e].key # c.link \/ entry[c.e].closing
  <2>1. SetTask(t, Ended(t)) /\ UNCHANGED entry
    BY <1>2 DEF DrainAgain
  <2> QED
    BY <1>1, <2>1, EndedTask, EmptyHandedIInv DEF IInv
<1>3. CASE ~(entry[c.e].key # c.link \/ entry[c.e].closing)
  <2>1. Drain(t, c.e, entry[c.e].key, entry[c.e], c.kind)
    BY <1>3 DEF DrainAgain
  <2> QED
    BY <1>1, <2>1, DrainIInv
<1> QED
  BY <1>2, <1>3

\* A pass of the transmit task.
LEMMA PassIInv ==
    ASSUME IInv, NEW S, Pass(S)
    PROVE  IInv'
<1> USE DEF IInv
<1>1. /\ due' = S /\ sending' = [l \in Links |-> sending[l] \ S]
      /\ UNCHANGED <<entry, mem, hook, life, owner, task, control>>
  BY DEF Pass
<1>2. \A f \in S : \E l \in Links : f \in sending[l]
  BY DEF Pass, UnderWay
<1>3. Types' /\ Table' /\ KeysOnlyGo
  BY <1>1, <1>2 DEF Types, Table, KeysOnlyGo
<1>4. \A t \in Tasks : Holding(t)' <=> Holding(t)
  BY <1>1 DEF Holding
<1>5. HandsOwn'
  BY <1>1, <1>2, <1>4 DEF Places, HandsOwn
<1>6. SlotsOwn'
  BY <1>1, <1>2 DEF Places, SlotsOwn
<1>7. EntriesOwn'
  BY <1>1, <1>2 DEF Places, EntriesOwn
<1>8. FreedOnce' /\ FramesAccounted'
  BY <1>1 DEF Places, FreedOnce, FramesAccounted
<1> QED
  BY <1>3, <1>5, <1>6, <1>7, <1>8, KeysOnlyGoInv DEF Places

\* flux_on_complete_bridge.
LEMMA BridgeIInv ==
    ASSUME IInv, NEW f \in Frames, Bridge(f)
    PROVE  IInv'
<1> USE DEF IInv
<1>1. /\ task["tx"].at = "idle" /\ "tx" \in Tasks /\ ~Holding("tx")
      /\ f \in due /\ due' = due \ {f}
      /\ UNCHANGED <<entry, mem, hook, life, sending, owner, control>>
  BY DEF Bridge, Tasks, Holding
<1>2. /\ mem[f] = "live" /\ owner[f] \in Links
      /\ \A l \in Links : f \notin sending[l]
      /\ \A x \in Slots : f \notin Queued(entry[x])
      /\ \A t \in Tasks : Holding(t) => task[t].f # f
  BY <1>1 DEF Places, HandsOwn, SlotsOwn, EntriesOwn
<1>3. Table' /\ KeysOnlyGo
  BY <1>1 DEF Table, KeysOnlyGo
<1>4. SlotsOwn' /\ FreedOnce'
  BY <1>1 DEF Places, SlotsOwn, FreedOnce
<1>5. CASE UNCHANGED task
  <2>1. \A t \in Tasks : Holding(t)' <=> Holding(t)
    BY <1>5 DEF Holding
  <2>2. HandsOwn'
    BY <1>1, <1>5, <2>1 DEF Places, HandsOwn
  <2>3. EntriesOwn'
    BY <1>1, <1>5 DEF Places, EntriesOwn
  <2>4. FramesAccounted'
    BY <1>1, <1>5 DEF Places, FramesAccounted
  <2>5. Types'
    BY <1>1, <1>5 DEF Types
  <2> QED
    BY <1>3, <1>4, <2>2, <2>3, <2>4, <2>5, KeysOnlyGoInv DEF Places
<1>6. CASE SetTask("tx", Call("txdone", owner[f], 1, f, "done"))
  <2> DEFINE d == Call("txdone", owner[f], 1, f, "done")
  <2>1. d \in CallType /\ d.at = "txdone" /\ d.f = f /\ d.link = owner[f]
    BY <1>2, StackConstants DEF Call, CallType, Slots
  <2> HIDE DEF d
  <2>2. /\ task' \in [Tasks -> CallType]
        /\ \A u \in Tasks : task'[u] = IF u = "tx" THEN d ELSE task[u]
    BY <1>1, <1>6, <2>1, TaskStepTypes DEF d
  <2>3. \A u \in Tasks : /\ Holding(u)' <=> Holding(u) \/ u = "tx"
                         /\ task'[u].at = "submit" <=> task[u].at = "submit"
    BY <1>1, <2>1, <2>2 DEF Holding
  <2>4. HandsOwn'
    BY <1>1, <1>2, <2>1, <2>2, <2>3 DEF Places, HandsOwn
  <2>5. EntriesOwn'
    BY <1>1, <2>1, <2>2, <2>3 DEF Places, EntriesOwn
  <2>6. FramesAccounted'
    BY <1>1, <2>1, <2>2, <2>3 DEF Places, FramesAccounted
  <2>7. Types'
    BY <1>1, <2>2 DEF Types
  <2> QED
    BY <1>3, <1>4, <2>4, <2>5, <2>6, <2>7, KeysOnlyGoInv DEF Places
<1> QED
  BY <1>5, <1>6 DEF Bridge

\* A completion frees its frame and takes the next from the queue.
LEMMA FrameSwapped ==
    ASSUME Types, Table, Places, NEW t \in Tasks, Holding(t),
           NEW x \in Slots, NEW h \in Queued(entry[x]), entry[x].key \in Links,
           task'[t].at = "run", task'[t].f = h, task'[t].link = entry[x].key,
           \A u \in Tasks : u # t => task'[u] = task[u],
           \A g \in Frames : mem'[g] = IF g = task[t].f THEN "freed" ELSE mem[g],
           \A y \in Slots : /\ entry'[y].key = entry[y].key
                            /\ Queued(entry'[y]) = Queued(entry[y]) \ {h}
                            /\ entry'[y].fly = (entry[y].fly \ {task[t].f}) \cup
                                               (IF y = x THEN {h} ELSE {}),
           UNCHANGED <<owner, sending, due>>
    PROVE  Places'
<1> DEFINE f == task[t].f
<1> HIDE DEF f
<1>1. /\ f \in Frames /\ f \notin due
      /\ \A l \in Links : f \notin sending[l]
      /\ \A y \in Slots : f \notin Queued(entry[y])
      /\ \A u \in Tasks : Holding(u) /\ task[u].f = f => u = t
  BY InHand DEF f
<1>2. /\ h \in Frames /\ h # f /\ mem[h] = "live" /\ owner[h] = entry[x].key /\ h \notin due
      /\ \A l \in Links : h \notin sending[l]
      /\ \A u \in Tasks : Holding(u) => task[u].f # h
  BY <1>1, EntryFrames DEF Places, EntriesOwn, HandsOwn
<1>3. \A g \in Frames : mem'[g] = IF g = f THEN "freed" ELSE mem[g]
  BY DEF f
<1>4. \A y \in Slots : /\ entry'[y].key = entry[y].key
                       /\ Queued(entry'[y]) = Queued(entry[y]) \ {h}
                       /\ entry'[y].fly = (entry[y].fly \ {f}) \cup
                                          (IF y = x THEN {h} ELSE {})
  BY DEF f
<1>5. \A u \in Tasks : Holding(u)' =>
          u = t \/ (u # t /\ Holding(u) /\ task'[u] = task[u] /\ task[u].f # f /\ task[u].f # h)
  BY <1>1, <1>2 DEF Holding
<1>6. \A u \in Tasks : task'[u].at = "submit" =>
          u # t /\ task'[u] = task[u] /\ task[u].f # f /\ task[u].f # h
  BY <1>5 DEF Holding
<1>7. HandsOwn'
  <2>1. ASSUME NEW u \in Tasks, Holding(u)'
        PROVE  /\ task'[u].f \in Frames /\ task'[u].link \in Links
               /\ mem'[task'[u].f] = "live" /\ owner[task'[u].f] = task'[u].link
               /\ task'[u].f \notin due
               /\ \A l \in Links : task'[u].f \notin sending[l]
               /\ \A y \in Slots : task'[u].f \notin Queued(entry'[y])
    <3>1. CASE u = t
      BY <3>1, <1>2, <1>3, <1>4
    <3>2. CASE u # t
      BY <3>2, <2>1, <1>3, <1>4, <1>5 DEF Places, HandsOwn
    <3> QED
      BY <3>1, <3>2
  <2>2. \A u, v \in Tasks : Holding(u)' /\ Holding(v)' /\ task'[u].f = task'[v].f => u = v
    BY <1>5 DEF Places, HandsOwn
  <2> QED
    BY <2>1, <2>2 DEF HandsOwn
<1>8. SlotsOwn'
  BY <1>1, <1>3 DEF Places, SlotsOwn, Types
<1>9. EntriesOwn'
  <2>1. ASSUME NEW y \in Slots, NEW g \in Queued(entry'[y])
        PROVE  /\ mem'[g] = "live" /\ owner[g] = entry[y].key
               /\ g \notin entry'[y].fly /\ g \notin due
               /\ \A l \in Links : g \notin sending[l]
    <3>1. g \in Queued(entry[y]) /\ g # h /\ g # f /\ g \in Frames
      BY <1>1, <1>4, EntryFrames
    <3>2. g \notin entry[y].fly
      BY <3>1 DEF Places, EntriesOwn
    <3> QED
      BY <3>1, <3>2, <1>3, <1>4 DEF Places, EntriesOwn
  <2>2. ASSUME NEW y \in Slots, NEW g \in entry'[y].fly
        PROVE  /\ mem'[g] = "live" /\ owner[g] = entry[y].key
               /\ \A u \in Tasks : task'[u].at = "submit" => task'[u].f # g
    <3>1. CASE g = h /\ y = x
      BY <3>1, <1>2, <1>3, <1>6
    <3>2. CASE g \in entry[y].fly /\ g # f
      BY <3>2, <1>3, <1>6, EntryFrames DEF Places, EntriesOwn
    <3> QED
      BY <3>1, <3>2, <1>4
  <2> QED
    BY <2>1, <2>2, <1>4 DEF EntriesOwn
<1>10. FreedOnce'
  BY <1>3 DEF Places, FreedOnce
<1>11. FramesAccounted'
  <2> SUFFICES ASSUME NEW g \in Frames, mem'[g] = "live"
               PROVE  \/ \E y \in Slots : g \in Queued(entry'[y]) \cup entry'[y].fly
                      \/ \E u \in Tasks : task'[u].f = g /\ task'[u].at = "submit"
    BY DEF FramesAccounted
  <2>1. g # f /\ mem[g] = "live"
    BY <1>3
  <2>2. CASE g = h
    BY <2>2, <1>4
  <2>3. CASE g # h /\ \E y \in Slots : g \in Queued(entry[y]) \cup entry[y].fly
    BY <2>1, <2>3, <1>4
  <2>4. CASE \E u \in Tasks : task[u].f = g /\ task[u].at = "submit"
    BY <2>1, <2>4 DEF f
  <2> QED
    BY <2>1, <2>2, <2>3, <2>4 DEF Places, FramesAccounted
<1> QED
  BY <1>7, <1>8, <1>9, <1>10, <1>11 DEF Places

\* esp_gmp_transport_tx_done.
LEMMA TxDoneIInv ==
    ASSUME IInv, TxDone
    PROVE  IInv'
<1> DEFINE c == task["tx"]
           l == c.link
           x == Least(Find(l))
           e == Forget(entry[x], c.f)
<1> USE DEF IInv
<1>1. /\ "tx" \in Tasks /\ c \in CallType /\ c.at = "txdone" /\ Holding("tx")
      /\ UNCHANGED <<hook, life, sending, due, owner, control>>
  BY DEF TxDone, Types, Tasks, Holding
<1>2. /\ c.f \in Frames /\ l \in Links /\ mem[c.f] = "live"
      /\ \A y \in Slots : c.f \notin Queued(entry[y])
      /\ \E y \in Slots : c.f \in entry[y].fly /\ entry[y].key = l
  BY <1>1, InHand
<1>3. /\ Find(l) # {} /\ x \in Slots /\ entry[x].key = l
      /\ c.f \in entry[x].fly /\ \A y \in Slots : c.f \in entry[y].fly => y = x
  BY <1>1, <1>2, FindOne DEF Places, EntriesOwn, HandsOwn
<1>4. /\ mem' = FreeFrames({c.f})
      /\ IF Open(e) THEN Drain("tx", x, l, e, "done")
         ELSE entry' = [entry EXCEPT ![x] = ClearIfIdle(e)] /\ SetTask("tx", Ended("tx"))
  BY <1>3 DEF TxDone, Released
<1> HIDE DEF x
<1>5. /\ Fits(e) /\ e.key = l /\ e.closing = entry[x].closing /\ e.txq = entry[x].txq
      /\ e.fly = entry[x].fly \ {c.f} /\ Queued(e) = Queued(entry[x])
      /\ (Open(e) <=> Open(entry[x]))
  <2>1. Fits(entry[x])
    BY <1>3 DEF Table, Sound
  <2> QED
    BY <2>1, <1>2, <1>3, ForgetFits DEF Queued, Open
<1> HIDE DEF e
<1>6. /\ mem' \in [Frames -> {"none", "live", "freed", "twice"}]
      /\ \A f \in Frames : mem'[f] = IF f = c.f THEN "freed" ELSE mem[f]
  <2>1. \A f \in {c.f} : f \in Frames /\ mem[f] = "live"
    BY <1>2
  <2> QED
    BY <2>1, <1>4, FreeFramesMem
<1>7. CASE Open(e) /\ DrainSends(e, SendIdle(l))
  <2> DEFINE h == Head(e.txq)
             g == DrainTurn(e)
  <2>1. /\ entry' = [entry EXCEPT ![x] = g]
        /\ SetTask("tx", Call("run", l, x, h, "done"))
    BY <1>4, <1>7 DEF Drain
  <2>2. /\ Sound(g) /\ g.key = e.key /\ Open(g) /\ h \in Queued(e) /\ h \in Frames
        /\ Queued(g) = Queued(e) \ {h} /\ g.fly = e.fly \cup {h}
    BY <1>5, <1>7, DrainTurnSound
  <2> HIDE DEF g, h
  <2>3. EntryBecomes(x, g)
    BY <1>3, <1>5, <1>7, <2>1, <2>2 DEF EntryBecomes, KeyKept
  <2>4. /\ Table' /\ KeysOnlyGo
        /\ \A y \in Slots : entry'[y] = IF y = x THEN g ELSE entry[y]
    BY <1>1, <1>3, <2>3, EntryStep DEF KeysOnlyGo
  <2>5. /\ task' \in [Tasks -> CallType]
        /\ task'["tx"].at = "run" /\ task'["tx"].f = h /\ task'["tx"].link = l
        /\ \A u \in Tasks : u # "tx" => task'[u] = task[u]
    BY <1>1, <1>2, <1>3, <2>1, <2>2, DrainCall
  <2>6. Types'
    BY <1>1, <1>6, <2>5 DEF Types
  <2>7. \A y \in Slots : h \in Queued(entry[y]) => y = x
    BY <1>2, <1>3, <1>5, <2>2, LinkConstants DEF Places, EntriesOwn, Table, NoLink
  <2>8. \A y \in Slots : /\ entry'[y].key = entry[y].key
                         /\ Queued(entry'[y]) = Queued(entry[y]) \ {h}
                         /\ entry'[y].fly = (entry[y].fly \ {c.f}) \cup
                                            (IF y = x THEN {h} ELSE {})
    BY <1>3, <1>5, <2>2, <2>4, <2>7
  <2>9. Places'
    <3>1. h \in Queued(entry[x]) /\ entry[x].key \in Links /\ task'["tx"].link = entry[x].key
      BY <1>2, <1>3, <1>5, <2>2, <2>5
    <3> QED
      BY <3>1, <1>1, <1>3, <1>6, <2>5, <2>8, FrameSwapped
  <2> QED
    BY <2>4, <2>6, <2>9, KeysOnlyGoInv
<1>8. ASSUME NEW g, entry' = [entry EXCEPT ![x] = g], SetTask("tx", Ended("tx")),
             Sound(g), KeyKept(e, g), Queued(g) = Queued(e), g.fly = e.fly, Open(g) <=> Open(e)
      PROVE  IInv'
  <2>1. EntryBecomes(x, g)
    BY <1>3, <1>5, <1>8 DEF EntryBecomes, KeyKept
  <2>2. /\ Table' /\ KeysOnlyGo
        /\ \A y \in Slots : entry'[y] = IF y = x THEN g ELSE entry[y]
    BY <1>1, <1>3, <2>1, EntryStep DEF KeysOnlyGo
  <2>3. /\ task' \in [Tasks -> CallType] /\ ~Holding("tx")'
        /\ \A u \in Tasks : u # "tx" => task'[u] = task[u]
    BY <1>1, <1>8, EndedTask
  <2>4. Types' /\ Elsewhere("tx", c.f) /\ mem'[c.f] = "freed"
    BY <1>1, <1>2, <1>6, <2>3 DEF Types, Elsewhere
  <2>5. EntriesWithout(c.f)
    <3>1. Queued(Free) = {} /\ Free.fly = {}
      BY FreeSound DEF Free
    <3> QED
      BY <1>3, <1>5, <1>8, <2>2, <3>1 DEF EntriesWithout, KeyKept
  <2>6. Places'
    BY <1>1, <2>3, <2>4, <2>5, FrameFreed
  <2> QED
    BY <2>2, <2>4, <2>6, KeysOnlyGoInv
<1>9. CASE Open(e) /\ ~DrainSends(e, SendIdle(l))
  <2>1. entry' = [entry EXCEPT ![x] = e] /\ SetTask("tx", Ended("tx"))
    BY <1>4, <1>9 DEF Drain
  <2> QED
    BY <1>5, <1>8, <1>9, <2>1 DEF Sound, KeyKept, Open
<1>10. CASE ~Open(e)
  BY <1>4, <1>5, <1>8, <1>10, ClearIfIdleSound
<1> QED
  BY <1>7, <1>9, <1>10

\* The end of gmp_flux_tx_done_and_cleanup: only the hook of a link that is closed
\* goes.
LEMMA CleanupIInv ==
    ASSUME IInv, Cleanup
    PROVE  IInv'
<1> USE DEF IInv
<1>1. /\ "tx" \in Tasks /\ task["tx"].at = "cleanup" /\ ~Holding("tx")
      /\ UNCHANGED <<entry, mem, life, sending, due, owner, control>>
      /\ hook' = [h \in Slots |->
             IF h \in HookByFlux(task["tx"].link) /\ Spent(h) THEN NoHook ELSE hook[h]]
  BY DEF Cleanup, Tasks, Holding
<1>2. Resting \in CallType /\ Resting.at = "idle" /\ SetTask("tx", Resting)
  BY StackConstants DEF Resting, CallType, Slots, NoLink, Cleanup
<1>3. /\ task' \in [Tasks -> CallType]
      /\ \A u \in Tasks : task'[u] = IF u = "tx" THEN Resting ELSE task[u]
  BY <1>1, <1>2, TaskStepTypes
<1>4. NoHook \in HookType /\ NoHook.link = NoLink /\ ~NoHook.closing /\ ~NoHook.flux
  BY DEF NoHook, HookType
<1>5. \A h \in Slots : hook'[h] = hook[h] \/ (hook[h].closing /\ hook'[h] = NoHook)
  BY <1>1 DEF Spent
<1>6. Types'
  BY <1>1, <1>3, <1>4 DEF Types
<1>7. Table' /\ Registration'
  BY <1>1 DEF Table, Registration, Find
<1>8. SamePlaces
  BY <1>1, <1>2, <1>3 DEF SamePlaces, Holding
<1>9. OpenLinksHooked'
  <2> SUFFICES ASSUME NEW x \in Slots, Open(entry[x]),
                      ~(control.at = "close" /\ control.link = entry[x].key)
               PROVE  \E h \in Slots : hook'[h].link = entry[x].key /\ hook'[h].flux
    BY <1>1 DEF OpenLinksHooked, HookByFlux
  <2>1. PICK h \in Slots : hook[h].link = entry[x].key /\ hook[h].flux
    BY DEF Hooks, OpenLinksHooked, HookByFlux
  <2>2. ~hook[h].closing
    BY <2>1 DEF Hooks
  <2> QED
    BY <2>1, <2>2, <1>5
<1>10. \A l \in Links : life[l] = "none" => HookOf(l)' = {}
  BY <1>4, <1>5, LinkConstants DEF Hooks, HookOf, NoLink
<1>11. \A h \in Slots : hook'[h].closing =>
           \/ \A x \in Slots : Open(entry[x]) => entry[x].key # hook'[h].link
           \/ control.at = "close" /\ control.link = hook'[h].link
  BY <1>4, <1>5 DEF Hooks
<1>12. control.at = "register" =>
           /\ control.h # {} /\ control.h \subseteq HookByFlux(control.link)'
           /\ \A h \in HookOf(control.link)' : ~hook'[h].closing
  <2> SUFFICES ASSUME control.at = "register"
               PROVE  /\ control.h # {} /\ control.h \subseteq HookByFlux(control.link)'
                      /\ \A h \in HookOf(control.link)' : ~hook'[h].closing
    OBVIOUS
  <2>1. /\ control.h # {} /\ control.h \subseteq HookByFlux(control.link)
        /\ \A h \in HookOf(control.link) : ~hook[h].closing
    BY DEF Hooks
  <2>2. \A h \in HookOf(control.link) : hook'[h] = hook[h]
    BY <1>5, <2>1 DEF HookOf
  <2>3. control.h \subseteq HookByFlux(control.link)'
    BY <1>1, <2>1, <2>2 DEF HookByFlux, HookOf
  <2>4. \A h \in HookOf(control.link)' : ~hook'[h].closing
    BY <1>1, <1>4, <1>5, <2>1, <2>2 DEF HookOf
  <2> QED
    BY <2>1, <2>3, <2>4
<1>13. control.at \in {"close", "unhook"} =>
           \A h \in control.h : hook'[h].link \in {control.link, NoLink}
  BY <1>4, <1>5 DEF Hooks, Types, ControlType
<1>14. Hooks'
  BY <1>1, <1>9, <1>10, <1>11, <1>12, <1>13 DEF Hooks
<1> QED
  BY <1>6, <1>7, <1>8, <1>14, SamePlacesInv

------------------------------------------------------------------------------
(* The steps of connecting and disconnecting *)

\* Those that touch no frame.
LEMMA QuietControl ==
    ASSUME IInv, UNCHANGED <<entry, mem, sending, due, owner, task>>
    PROVE  Table' /\ Places'
<1>1. SamePlaces
  BY DEF SamePlaces, Holding
<1> QED
  BY <1>1, SamePlacesInv DEF IInv, Table

LEMMA ConnectIInv ==
    ASSUME IInv, NEW l \in Links, Connect(l)
    PROVE  IInv'
<1> USE DEF IInv
<1>1. /\ control.at = "idle" /\ life[l] = "none" /\ HookOf(l) = {}
      /\ life' = [life EXCEPT ![l] = "alive"]
      /\ UNCHANGED <<entry, mem, sending, due, owner, task>>
      /\ \A k \in Links : life'[k] = IF k = l THEN "alive" ELSE life[k]
  BY DEF Connect, Hooks, Types
<1>2. l # NoLink /\ \A x \in Slots : entry[x].key # l
  BY <1>1, LinkConstants DEF NoLink, Registration
<1>3. Table' /\ Places'
  BY <1>1, QuietControl
<1>4. \A x \in Slots : entry[x].key # NoLink => life'[entry[x].key] # "none"
  BY <1>1, <1>2 DEF Registration
<1>5. CASE HookOf(NoLink) = {}
  <2>1. control' = [at |-> "unlist", link |-> l, h |-> {}] /\ hook' = hook
    BY <1>5 DEF Connect
  <2>2. Types'
    BY <1>1, <2>1 DEF Types, ControlType
  <2>3. Registration'
    BY <1>1, <1>4, <2>1 DEF Registration
  <2>4. OpenLinksHooked'
    BY <1>1, <2>1 DEF Hooks, OpenLinksHooked, HookByFlux
  <2>5. Hooks'
    BY <1>1, <1>2, <2>1, <2>4 DEF Hooks, HookOf
  <2> QED
    BY <1>3, <2>2, <2>3, <2>5
<1>6. CASE HookOf(NoLink) # {}
  <2> DEFINE h == Least(HookOf(NoLink))
             n == [NoHook EXCEPT !.link = l, !.flux = TRUE]
  <2>1. /\ hook' = [hook EXCEPT ![h] = n]
        /\ control' = [at |-> "register", link |-> l, h |-> {h}]
    BY <1>6 DEF Connect
  <2>2. h \in Slots /\ hook[h].link = NoLink
    <3>1. HookOf(NoLink) \subseteq Slots
      BY DEF HookOf
    <3>2. h \in HookOf(NoLink)
      BY <3>1, <1>6, LeastIn
    <3> QED
      BY <3>2 DEF HookOf
  <2>3. n \in HookType /\ n.link = l /\ n.flux /\ ~n.closing
    BY DEF NoHook, HookType
  <2> HIDE DEF h, n
  <2>4. \A k \in Slots : hook'[k] = IF k = h THEN n ELSE hook[k]
    BY <2>1 DEF Types
  <2>5. Types'
    BY <1>1, <2>1, <2>2, <2>3 DEF Types, ControlType
  <2>6. Registration'
    BY <1>1, <1>2, <1>4, <2>1 DEF Registration, Find
  <2>7. OpenLinksHooked'
    <3> SUFFICES ASSUME NEW x \in Slots, Open(entry[x])
                 PROVE  \E k \in Slots : hook'[k].link = entry[x].key /\ hook'[k].flux
      BY <1>1 DEF OpenLinksHooked, HookByFlux
    <3>1. PICK k \in Slots : hook[k].link = entry[x].key /\ hook[k].flux
      BY <1>1 DEF Hooks, OpenLinksHooked, HookByFlux
    <3>2. entry[x].key # NoLink
      BY DEF Open
    <3> QED
      BY <3>1, <3>2, <2>2, <2>4
  <2>8. \A k \in Links : life'[k] = "none" => HookOf(k)' = {}
    BY <1>1, <2>3, <2>4 DEF Hooks, HookOf
  <2>9. \A k \in Slots : hook'[k].closing =>
            \A x \in Slots : Open(entry[x]) => entry[x].key # hook'[k].link
    BY <1>1, <2>3, <2>4 DEF Hooks
  <2>10. /\ {h} \subseteq HookByFlux(l)'
         /\ \A k \in HookOf(l)' : ~hook'[k].closing
    BY <1>1, <2>2, <2>3, <2>4 DEF HookByFlux, HookOf
  <2>11. Hooks'
    BY <1>1, <2>1, <2>7, <2>8, <2>9, <2>10 DEF Hooks
  <2> QED
    BY <1>3, <2>5, <2>6, <2>11
<1> QED
  BY <1>5, <1>6

\* esp_gmp_link_register.
LEMMA LinkRegisterIInv ==
    ASSUME IInv, LinkRegister
    PROVE  IInv'
<1> DEFINE l == control.link
<1> USE DEF IInv
<1>1. /\ control.at = "register" /\ l \in Links /\ l # NoLink /\ life[l] # "none"
      /\ \A x \in Slots : entry[x].key # l
      /\ control.h # {} /\ control.h \subseteq HookByFlux(l) /\ control \in ControlType
      /\ \A h \in HookOf(l) : ~hook[h].closing
      /\ UNCHANGED <<mem, life, sending, due, owner, task>>
  BY LinkConstants DEF LinkRegister, Registration, Find, NoLink, Hooks, Types
<1>2. CASE Find(NoLink) = {}
  <2>1. /\ hook' = [h \in Slots |->
               IF h \in control.h THEN [hook[h] EXCEPT !.flux = FALSE] ELSE hook[h]]
        /\ control' = [control EXCEPT !.at = "unlist", !.h = {}]
        /\ UNCHANGED entry
    BY <1>2 DEF LinkRegister
  <2>2. control' \in ControlType /\ control'.at = "unlist" /\ control'.link = l
    BY <1>1, <2>1 DEF ControlType
  <2>3. \A h \in Slots : /\ hook'[h] \in HookType
                         /\ hook'[h].link = hook[h].link /\ hook'[h].closing = hook[h].closing
                         /\ h \notin control.h => hook'[h] = hook[h]
    BY <2>1 DEF Types, HookType
  <2>4. hook' \in [Slots -> HookType]
    BY <2>1, <2>3
  <2>5. Types'
    BY <1>1, <2>2, <2>4 DEF Types
  <2>6. Table' /\ Places'
    BY <1>1, <2>1, QuietControl
  <2>7. Registration'
    BY <1>1, <2>1, <2>2 DEF Registration
  <2>8. OpenLinksHooked'
    <3> SUFFICES ASSUME NEW x \in Slots, Open(entry[x])
                 PROVE  \E h \in Slots : hook'[h].link = entry[x].key /\ hook'[h].flux
      BY <2>1 DEF OpenLinksHooked, HookByFlux
    <3>1. PICK h \in Slots : hook[h].link = entry[x].key /\ hook[h].flux
      BY <1>1 DEF Hooks, OpenLinksHooked, HookByFlux
    <3>2. h \notin control.h
      BY <1>1, <3>1 DEF HookByFlux
    <3> QED
      BY <3>1, <3>2, <2>3
  <2>9. \A h \in Slots : hook'[h].closing =>
            \A x \in Slots : Open(entry[x]) => entry[x].key # hook'[h].link
    BY <1>1, <2>3 DEF Hooks
  <2>10. \A k \in Links : life[k] = "none" => HookOf(k)' = {}
    BY <2>3 DEF Hooks, HookOf
  <2>11. Hooks'
    BY <1>1, <2>1, <2>2, <2>8, <2>9, <2>10 DEF Hooks
  <2> QED
    BY <2>5, <2>6, <2>7, <2>11
<1>3. CASE Find(NoLink) # {}
  <2> DEFINE x == Least(Find(NoLink))
             g == Registered(l)
  <2>1. /\ entry' = [entry EXCEPT ![x] = g] /\ control' = NoControl /\ UNCHANGED hook
    BY <1>3 DEF LinkRegister
  <2>2. x \in Slots /\ entry[x].key = NoLink
    <3>1. Find(NoLink) \subseteq Slots
      BY DEF Find
    <3>2. x \in Find(NoLink)
      BY <3>1, <1>3, LeastIn
    <3> QED
      BY <3>2 DEF Find
  <2>3. entry[x] = Free /\ Queued(entry[x]) = {} /\ entry[x].fly = {}
    <3>1. entry[x] = Free
      BY <2>2 DEF Table, Sound, Fits
    <3>2. Queued(Free) = {}
      BY FreeSound
    <3>3. Free.fly = {}
      BY DEF Free
    <3> QED
      BY <3>1, <3>2, <3>3
  <2>4. Sound(g) /\ g \in EntryType /\ g.key = l /\ Queued(g) = {} /\ g.fly = {} /\ Open(g)
    BY <1>1, RegisteredSound DEF Sound, Fits
  <2> HIDE DEF x, g
  <2>5. \A y \in Slots : entry'[y] = IF y = x THEN g ELSE entry[y]
    BY <2>1 DEF Table
  <2>6. control' \in ControlType /\ control'.at = "idle"
    BY <2>1 DEF NoControl, ControlType
  <2>7. Types'
    BY <1>1, <2>1, <2>6 DEF Types
  <2>8. Table'
    <3>1. entry' \in [Slots -> EntryType]
      BY <2>1, <2>4 DEF Table
    <3>2. \A y \in Slots : Sound(entry'[y])
      BY <2>4, <2>5 DEF Table
    <3>3. \A y, z \in Slots :
              entry'[y].key = entry'[z].key /\ entry'[y].key # NoLink => y = z
      BY <1>1, <2>4, <2>5 DEF Table
    <3> QED
      BY <3>1, <3>2, <3>3 DEF Table
  <2>9. Registration'
    BY <1>1, <2>4, <2>5, <2>6 DEF Registration
  <2>10. SamePlaces
    BY <1>1, <2>3, <2>4, <2>5 DEF SamePlaces, Holding
  <2>11. \A y \in Slots : Open(entry'[y]) =>
             (y = x /\ entry'[y].key = l) \/ (y # x /\ entry'[y] = entry[y])
    BY <2>4, <2>5
  <2>12. OpenLinksHooked'
    <3> SUFFICES ASSUME NEW y \in Slots, Open(entry'[y])
                 PROVE  \E h \in Slots : hook[h].link = entry'[y].key /\ hook[h].flux
      BY <2>1 DEF OpenLinksHooked, HookByFlux
    <3>1. CASE y = x
      BY <3>1, <1>1, <2>4, <2>5 DEF HookByFlux
    <3>2. CASE y # x
      BY <3>2, <1>1, <2>5 DEF Hooks, OpenLinksHooked, HookByFlux
    <3> QED
      BY <3>1, <3>2
  <2>13. \A h \in Slots : hook[h].closing =>
             \A y \in Slots : Open(entry'[y]) => entry'[y].key # hook[h].link
    BY <1>1, <2>11 DEF Hooks, HookOf
  <2>14. Hooks'
    BY <1>1, <2>1, <2>6, <2>12, <2>13 DEF Hooks, HookOf
  <2> QED
    BY <2>7, <2>8, <2>9, <2>10, <2>14, SamePlacesInv
<1> QED
  BY <1>2, <1>3

\* esp_gmp_flux_link_unregister marks the hooks of the link.
LEMMA DisconnectIInv ==
    ASSUME IInv, NEW l \in Links, Disconnect(l)
    PROVE  IInv'
<1> USE DEF IInv
<1>1. /\ control.at = "idle" /\ life[l] = "alive"
      /\ hook' = [h \in Slots |->
             IF h \in HookOf(l) THEN [hook[h] EXCEPT !.closing = TRUE] ELSE hook[h]]
      /\ control' = [at |-> "close", link |-> l, h |-> HookOf(l)]
      /\ UNCHANGED <<entry, mem, life, sending, due, owner, task>>
  BY DEF Disconnect
<1>2. \A h \in Slots : /\ hook'[h] \in HookType
                       /\ hook'[h].link = hook[h].link /\ hook'[h].flux = hook[h].flux
                       /\ hook'[h].closing => hook[h].closing \/ hook[h].link = l
  BY <1>1 DEF Types, HookType, HookOf
<1>3. Types'
  <2>1. hook' \in [Slots -> HookType]
    BY <1>1, <1>2
  <2>2. control' \in ControlType
    BY <1>1 DEF ControlType, HookOf
  <2> QED
    BY <1>1, <2>1, <2>2 DEF Types
<1>4. Table' /\ Places'
  BY <1>1, QuietControl
<1>5. Registration'
  BY <1>1 DEF Registration
<1>6. \A k : HookByFlux(k)' = HookByFlux(k) /\ HookOf(k)' = HookOf(k)
  BY <1>2 DEF HookByFlux, HookOf
<1>7. OpenLinksHooked'
  BY <1>1, <1>6 DEF Hooks, OpenLinksHooked
<1>8. Hooks'
  BY <1>1, <1>2, <1>6, <1>7 DEF Hooks, HookOf
<1> QED
  BY <1>3, <1>4, <1>5, <1>8

\* The entry of a link that goes drops its queue.
LEMMA QueueDropped ==
    ASSUME Types, Table, Places, NEW x \in Slots, entry[x].key # NoLink,
           mem' = FreeFrames(Queued(entry[x])),
           \A y \in Slots : y # x => entry'[y] = entry[y],
           Queued(entry'[x]) = {}, entry'[x].fly = entry[x].fly,
           entry[x].fly # {} => entry'[x].key = entry[x].key,
           UNCHANGED <<sending, due, owner, task>>
    PROVE  Places' /\ mem' \in [Frames -> {"none", "live", "freed", "twice"}]
<1> DEFINE S == Queued(entry[x])
<1>1. \A f \in S : f \in Frames /\ mem[f] = "live"
  BY EntryFrames DEF Places, EntriesOwn
<1>2. /\ mem' \in [Frames -> {"none", "live", "freed", "twice"}]
      /\ \A f \in Frames : mem'[f] = IF f \in S THEN "freed" ELSE mem[f]
  BY <1>1, FreeFramesMem
<1>3. \A f \in S : /\ \A t \in Tasks : Holding(t) => task[t].f # f
                   /\ f \notin due /\ \A l \in Links : f \notin sending[l]
  BY DEF Places, HandsOwn, EntriesOwn
<1>4. \A y \in Slots : \A f \in entry[y].fly : f \notin S
  BY DEF Places, EntriesOwn, Table
<1>5. \A y \in Slots : \A f \in Queued(entry[y]) : f \in S => y = x
  BY DEF Places, EntriesOwn, Table
<1> HIDE DEF S
<1>6. \A t \in Tasks : Holding(t)' <=> Holding(t)
  BY DEF Holding
<1>7. HandsOwn'
  <2>1. \A y \in Slots : Queued(entry'[y]) \subseteq Queued(entry[y])
    OBVIOUS
  <2> QED
    BY <2>1, <1>2, <1>3, <1>6 DEF Places, HandsOwn
<1>8. SlotsOwn'
  BY <1>2, <1>3 DEF Places, SlotsOwn, Types
<1>9. EntriesOwn'
  <2>1. ASSUME NEW y \in Slots, NEW f \in Queued(entry'[y])
        PROVE  y # x /\ entry'[y] = entry[y] /\ f \in Frames /\ mem'[f] = "live"
    BY <1>2, <1>5, EntryFrames DEF Places, EntriesOwn
  <2>2. ASSUME NEW y \in Slots, NEW f \in entry'[y].fly
        PROVE  f \in entry[y].fly /\ entry'[y].key = entry[y].key /\ mem'[f] = "live"
    BY <1>2, <1>4, EntryFrames DEF Places, EntriesOwn
  <2>3. \A y \in Slots : \A f \in Queued(entry'[y]) :
            /\ owner[f] = entry'[y].key /\ f \notin entry'[y].fly /\ f \notin due
            /\ \A l \in Links : f \notin sending[l]
    BY <2>1 DEF Places, EntriesOwn
  <2>4. \A y \in Slots : \A f \in entry'[y].fly :
            /\ owner[f] = entry'[y].key
            /\ \A t \in Tasks : task[t].at = "submit" => task[t].f # f
    BY <2>2 DEF Places, EntriesOwn
  <2> QED
    BY <2>1, <2>2, <2>3, <2>4 DEF EntriesOwn
<1>10. FreedOnce'
  BY <1>2 DEF Places, FreedOnce
<1>11. FramesAccounted'
  <2> SUFFICES ASSUME NEW f \in Frames, mem'[f] = "live"
               PROVE  \/ \E y \in Slots : f \in Queued(entry'[y]) \cup entry'[y].fly
                      \/ \E t \in Tasks : task[t].f = f /\ task[t].at = "submit"
    BY DEF FramesAccounted
  <2>1. f \notin S /\ mem[f] = "live"
    BY <1>2
  <2>2. CASE \E y \in Slots : f \in Queued(entry[y]) \cup entry[y].fly
    BY <2>1, <2>2 DEF S
  <2> QED
    BY <2>1, <2>2 DEF Places, FramesAccounted
<1> QED
  BY <1>2, <1>7, <1>8, <1>9, <1>10, <1>11 DEF Places

\* esp_gmp_link_unregister.
LEMMA LinkUnregisterIInv ==
    ASSUME IInv, LinkUnregister
    PROVE  IInv'
<1> DEFINE l == control.link
           x == Least(Find(l))
           g == Close(entry[x])
<1> USE DEF IInv
<1>1. /\ control.at = "close" /\ l \in Links /\ l # NoLink /\ life[l] # "none"
      /\ control' = [control EXCEPT !.at = "unhook"] /\ control \in ControlType
      /\ UNCHANGED <<hook, life, sending, due, owner, task>>
  BY LinkConstants DEF LinkUnregister, Registration, NoLink, Types
<1>2. control' \in ControlType /\ control'.at = "unhook" /\ control'.link = l
      /\ control'.h = control.h
  BY <1>1 DEF ControlType
<1>3. ASSUME Table', Places', mem' \in [Frames -> {"none", "live", "freed", "twice"}],
             \A y \in Slots : entry'[y].key \in {entry[y].key, NoLink},
             \A y \in Slots : Open(entry'[y]) =>
                 Open(entry[y]) /\ entry'[y].key = entry[y].key /\ entry'[y].key # l
      PROVE  IInv'
  <2>1. Types'
    BY <1>1, <1>2, <1>3 DEF Types
  <2>2. Registration'
    BY <1>1, <1>2, <1>3 DEF Registration
  <2>3. \A k : HookOf(k)' = HookOf(k) /\ HookByFlux(k)' = HookByFlux(k)
    BY <1>1 DEF HookOf, HookByFlux
  <2>4. OpenLinksHooked'
    BY <1>1, <1>3, <2>3 DEF Hooks, OpenLinksHooked
  <2>5. \A h \in Slots : hook[h].closing =>
            \A y \in Slots : Open(entry'[y]) => entry'[y].key # hook[h].link
    BY <1>1, <1>3 DEF Hooks
  <2>6. Hooks'
    BY <1>1, <1>2, <1>3, <2>3, <2>4, <2>5 DEF Hooks
  <2> QED
    BY <1>3, <2>1, <2>2, <2>6
<1>4. CASE Find(l) = {}
  <2>1. UNCHANGED <<entry, mem>>
    BY <1>4 DEF LinkUnregister
  <2>2. Table' /\ Places'
    BY <1>1, <2>1, QuietControl
  <2>3. \A y \in Slots : entry[y].key # l
    BY <1>4 DEF Find
  <2> QED
    BY <1>3, <2>1, <2>2, <2>3 DEF Types
<1>5. CASE Find(l) # {}
  <2>1. /\ mem' = FreeFrames(Queued(entry[x])) /\ entry' = [entry EXCEPT ![x] = g]
    BY <1>5 DEF LinkUnregister, DroppedBy
  <2>2. x \in Slots /\ entry[x].key = l
    BY <1>1, <1>5, FindOne
  <2> HIDE DEF x
  <2>3. /\ Sound(g) /\ KeyKept(entry[x], g) /\ ~Open(g) /\ Queued(g) = {}
        /\ g.fly = entry[x].fly
    BY <1>1, <2>2, CloseSound DEF Table
  <2> HIDE DEF g
  <2>4. EntryBecomes(x, g)
    BY <2>1, <2>3 DEF EntryBecomes
  <2>5. /\ Table' /\ \A y \in Slots : entry'[y] = IF y = x THEN g ELSE entry[y]
        /\ \A y \in Slots : entry'[y].key \in {entry[y].key, NoLink}
        /\ \A y \in Slots : Open(entry'[y]) =>
               Open(entry[y]) /\ entry'[y].key = entry[y].key
    BY <2>2, <2>4, EntryStep
  <2>6. \A y \in Slots : Open(entry'[y]) => entry'[y].key # l
    BY <1>1, <2>2, <2>3, <2>5 DEF Table
  <2>7. g.fly # {} => g.key = entry[x].key
    BY <2>3 DEF KeyKept, Free
  <2>8. Places' /\ mem' \in [Frames -> {"none", "live", "freed", "twice"}]
    BY <1>1, <2>1, <2>2, <2>3, <2>5, <2>7, QueueDropped
  <2> QED
    BY <1>3, <2>5, <2>6, <2>8
<1> QED
  BY <1>4, <1>5

\* The last hooks of the link go.
LEMMA UnhookIInv ==
    ASSUME IInv, Unhook
    PROVE  IInv'
<1> DEFINE l == control.link
<1> USE DEF IInv
<1>1. /\ control.at = "unhook" /\ l \in Links /\ l # NoLink /\ life[l] # "none"
      /\ hook' = [h \in Slots |->
             IF h \in control.h /\ ~HasInFlight(h) THEN NoHook ELSE hook[h]]
      /\ control' = [control EXCEPT !.at = "unlist", !.h = {}] /\ control \in ControlType
      /\ UNCHANGED <<entry, mem, life, sending, due, owner, task>>
      /\ \A x \in Slots : Open(entry[x]) => entry[x].key # l
      /\ \A h \in control.h : hook[h].link \in {l, NoLink}
  BY LinkConstants DEF Unhook, Registration, NoLink, Types, Hooks
<1>2. control' \in ControlType /\ control'.at = "unlist" /\ control'.link = l
  BY <1>1 DEF ControlType
<1>3. NoHook \in HookType /\ NoHook.link = NoLink /\ ~NoHook.closing
  BY DEF NoHook, HookType
<1>4. \A h \in Slots : \/ hook'[h] = hook[h]
                       \/ hook[h].link \in {l, NoLink} /\ hook'[h] = NoHook
  BY <1>1
<1>5. Types'
  BY <1>1, <1>2, <1>3 DEF Types
<1>6. Table' /\ Places'
  BY <1>1, QuietControl
<1>7. Registration'
  BY <1>1, <1>2 DEF Registration
<1>8. OpenLinksHooked'
  <2> SUFFICES ASSUME NEW x \in Slots, Open(entry[x])
               PROVE  \E h \in Slots : hook'[h].link = entry[x].key /\ hook'[h].flux
    BY <1>1 DEF OpenLinksHooked, HookByFlux
  <2>1. PICK h \in Slots : hook[h].link = entry[x].key /\ hook[h].flux
    BY <1>1 DEF Hooks, OpenLinksHooked, HookByFlux
  <2>2. entry[x].key # l /\ entry[x].key # NoLink
    BY <1>1 DEF Open
  <2> QED
    BY <2>1, <2>2, <1>4
<1>9. \A k \in Links : life[k] = "none" => HookOf(k)' = {}
  BY <1>3, <1>4, LinkConstants DEF Hooks, HookOf, NoLink
<1>10. \A h \in Slots : hook'[h].closing =>
           \A x \in Slots : Open(entry[x]) => entry[x].key # hook'[h].link
  BY <1>1, <1>3, <1>4 DEF Hooks
<1>11. Hooks'
  BY <1>1, <1>2, <1>8, <1>9, <1>10 DEF Hooks
<1> QED
  BY <1>5, <1>6, <1>7, <1>11

\* gatt_session_destroy: the session leaves the list.
LEMMA UnlistIInv ==
    ASSUME IInv, Unlist
    PROVE  IInv'
<1> DEFINE l == control.link
<1> USE DEF IInv
<1>1. /\ control.at = "unlist" /\ l \in Links
      /\ life' = [life EXCEPT ![l] = "leaving"]
      /\ control' = [control EXCEPT !.at = "destroy"] /\ control \in ControlType
      /\ UNCHANGED <<entry, mem, hook, sending, due, owner, task>>
      /\ \A k \in Links : life'[k] = IF k = l THEN "leaving" ELSE life[k]
  BY DEF Unlist, Registration, Types
<1>2. control' \in ControlType /\ control'.at = "destroy" /\ control'.link = l
  BY <1>1 DEF ControlType
<1>3. Types'
  BY <1>1, <1>2 DEF Types
<1>4. Table' /\ Places'
  BY <1>1, QuietControl
<1>5. Registration'
  <2>1. \A x \in Slots : entry[x].key \in Links \cup {NoLink}
    BY DEF Table, EntryType
  <2> QED
    BY <2>1, <1>1, <1>2 DEF Registration
<1>6. OpenLinksHooked'
  BY <1>1, <1>2 DEF Hooks, OpenLinksHooked, HookByFlux
<1>7. Hooks'
  BY <1>1, <1>2, <1>6 DEF Hooks, HookOf
<1> QED
  BY <1>3, <1>4, <1>5, <1>7

\* flux_session_destroy drops what the session still had.
LEMMA DestroyIInv ==
    ASSUME IInv, Destroy
    PROVE  IInv'
<1> DEFINE l == control.link
<1> USE DEF IInv
<1>1. /\ control.at = "destroy" /\ l \in Links
      /\ life' = [life EXCEPT ![l] = "freed"]
      /\ sending' = [sending EXCEPT ![l] = {}]
      /\ due' = {f \in due : owner[f] # l}
      /\ control' = NoControl
      /\ UNCHANGED <<entry, mem, hook, owner, task>>
      /\ \A k \in Links : life'[k] = IF k = l THEN "freed" ELSE life[k]
  BY DEF Destroy, Registration, Types
<1>2. control' \in ControlType /\ control'.at = "idle"
  BY <1>1 DEF ControlType, NoControl
<1>3. due' \subseteq due /\ \A k \in Links : sending'[k] \subseteq sending[k]
  BY <1>1 DEF Types
<1>4. Types'
  BY <1>1, <1>2 DEF Types
<1>5. Table'
  BY <1>1 DEF Table
<1>6. Registration'
  <2>1. \A x \in Slots : entry[x].key \in Links \cup {NoLink}
    BY DEF Table, EntryType
  <2> QED
    BY <2>1, <1>1, <1>2 DEF Registration
<1>7. \A t \in Tasks : Holding(t)' <=> Holding(t)
  BY <1>1 DEF Holding
<1>8. HandsOwn'
  BY <1>1, <1>3, <1>7 DEF Places, HandsOwn
<1>9. SlotsOwn'
  BY <1>1, <1>3 DEF Places, SlotsOwn
<1>10. EntriesOwn'
  BY <1>1, <1>3 DEF Places, EntriesOwn
<1>11. FreedOnce' /\ FramesAccounted'
  BY <1>1 DEF Places, FreedOnce, FramesAccounted
<1>12. OpenLinksHooked'
  BY <1>1, <1>2 DEF Hooks, OpenLinksHooked, HookByFlux
<1>13. Hooks'
  BY <1>1, <1>2, <1>12 DEF Hooks, HookOf
<1> QED
  BY <1>4, <1>5, <1>6, <1>8, <1>9, <1>10, <1>11, <1>13 DEF Places

------------------------------------------------------------------------------
(* The theorems *)

LEMMA NextIInv == IInv /\ [Next]_vars => IInv'
<1> SUFFICES ASSUME IInv, [Next]_vars PROVE IInv'
  OBVIOUS
<1>1. ASSUME NEW t \in Tasks, TaskStep(t) PROVE IInv'
  BY <1>1, SubmitFrameIInv, RunIInv, FinishFailedIInv, DrainAgainIInv DEF TaskStep
<1>2. CASE \E t \in Tasks, l \in Links, f \in Frames : Build(t, l, f)
  BY <1>2, BuildIInv
<1>3. CASE \E t \in Senders : TaskStep(t)
  BY <1>1, <1>3 DEF Tasks
<1>4. CASE PollStep
  <2>1. "poll" \in Tasks
    BY DEF Tasks
  <2> QED
    BY <1>1, <1>4, <2>1, PollIInv DEF PollStep
<1>5. CASE TxStep
  <2>1. "tx" \in Tasks
    BY DEF Tasks
  <2> QED
    BY <1>1, <1>5, <2>1, BridgeIInv, TxDoneIInv, CleanupIInv DEF TxStep
<1>6. CASE ControlStep
  BY <1>6, LinkRegisterIInv, LinkUnregisterIInv, UnhookIInv, UnlistIInv, DestroyIInv
     DEF ControlStep
<1>7. CASE \E S \in SUBSET UnderWay : Pass(S)
  BY <1>7, PassIInv
<1>8. CASE \E l \in Links : Connect(l) \/ Disconnect(l)
  BY <1>8, ConnectIInv, DisconnectIInv
<1>9. CASE UNCHANGED vars
  <2>1. UNCHANGED <<entry, mem, hook, life, sending, due, owner, task, control>>
    BY <1>9 DEF vars
  <2>2. Table' /\ Places' /\ KeysOnlyGo /\ Types'
    BY <2>1, QuietControl DEF KeysOnlyGo, IInv, Types
  <2> QED
    BY <2>2, KeysOnlyGoInv DEF IInv
<1> QED
  BY <1>2, <1>3, <1>4, <1>5, <1>6, <1>7, <1>8, <1>9 DEF Next

LEMMA SpecIInv == Spec => []IInv
  BY InitIInv, NextIInv, PTL DEF Spec

\* The types of the stack's state; no queue and no in_flight[] holds more than its
\* array does.
THEOREM GmpStackTypes == Spec => []TypeOK
<1>1. IInv => TypeOK
  BY DEF IInv, Types, Table, Sound, Fits, TypeOK, HookType, CallType, ControlType
<1> QED
  BY <1>1, SpecIInv, PTL

\* However sends, polls, failed sends, completions and disconnections interleave,
\* no frame is freed twice, and none while Flux or a task still uses it.
THEOREM GmpFramesOutliveUse == Spec => []FramesOutliveUse
<1>1. IInv => FramesOutliveUse
  BY DEF IInv, Places, HandsOwn, SlotsOwn, FreedOnce, FramesOutliveUse, Held, Holding
<1> QED
  BY <1>1, SpecIInv, PTL

\* A frame is queued and sent on the link it was built for, although its entry is
\* found without a lock and may be given to another link meanwhile.
THEOREM GmpFramesKeepTheirLink == Spec => []FramesKeepTheirLink
<1>1. IInv => FramesKeepTheirLink
  BY DEF IInv, Places, SlotsOwn, EntriesOwn, FramesKeepTheirLink
<1> QED
  BY <1>1, SpecIInv, PTL

\* No path, of all those a send can take, loses the frame's memory.
THEOREM GmpFramesAccounted == Spec => []FramesAccounted
<1>1. IInv => FramesAccounted
  BY DEF IInv, Places
<1> QED
  BY <1>1, SpecIInv, PTL

\* A closing entry has a frame in flight whose completion clears it.
THEOREM GmpClosingWaits == Spec => []ClosingWaits
<1>1. IInv => ClosingWaits
  BY DEF IInv, Table, Sound, ClosingWaits
<1> QED
  BY <1>1, SpecIInv, PTL

\* The hook of an open link outlives its entry: messages and completions of its
\* session reach it until its disconnection begins.
THEOREM GmpOpenLinksHooked == Spec => []OpenLinksHooked
<1>1. IInv => OpenLinksHooked
  BY DEF IInv, Hooks
<1> QED
  BY <1>1, SpecIInv, PTL
===============================================================================
