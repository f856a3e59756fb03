------------------------------- MODULE Chunks -------------------------------
(***************************************************************************)
(* Terrain streaming in the client (frontend/src/world/gen/chunks.ts and   *)
(* the part of world/world.ts that owns it): a grid of chunks loaded       *)
(* around the rover, in two resolutions, with a bounded cache of the       *)
(* chunks that were unloaded.                                              *)
(*                                                                         *)
(* A chunk holds memory of the graphics card: each one that is built has   *)
(* to be disposed of in the end, and not while it is in the scene.         *)
(***************************************************************************)
EXTENDS Integers, SequencesExt

CONSTANTS ViewRadius, HighLodRadius, ScatterRadius, CacheSize, BuildBudget,
          MaxChunk,         \* edge of the world
          Roam              \* where the rover may drive: controls.ts stops it

Positions == (-MaxChunk..MaxChunk) \X (-MaxChunk..MaxChunk)

ASSUME ChunksAssumption ==
    /\ {ViewRadius, ScatterRadius, HighLodRadius, CacheSize, MaxChunk} \subseteq Nat
    /\ HighLodRadius <= ScatterRadius /\ ScatterRadius <= ViewRadius
    /\ BuildBudget \in Nat \ {0}
    /\ Roam \subseteq Positions

VARIABLES rover,    \* the chunk the rover is on
          scene     \* the maps loaded and lru in their order, and what is on the card

streamVars == <<rover, scene>>

Chunk == [key : Positions, lod : {0, 1}, bare : BOOLEAN]

Empty == [loaded |-> <<>>, lru |-> <<>>, alive |-> 0]

StreamInit == rover \in Roam /\ scene = Empty

-----------------------------------------------------------------------------
\* The elements of a sequence that are in a set, in their order.
Keep(s, T) ==
    LET f[i \in 0..Len(s)] ==
          IF i = 0 THEN <<>>
          ELSE IF s[i] \in T THEN Append(f[i - 1], s[i]) ELSE f[i - 1]
    IN  f[Len(s)]

Distance(i, j) == IF i < j THEN j - i ELSE i - j

\* Chebyshev distance between chunks.
Ring(k, at) == Max({Distance(k[1], at[1]), Distance(k[2], at[2])})

Lod(k, at) == IF Ring(k, at) <= HighLodRadius THEN 0 ELSE 1

\* The positions around one in the order of the loops of update: by ring, then x, then z.
Nearest == [at \in Roam |->
    LET width == 2 * ViewRadius + 1
        square == [i \in 1..(width * width) |->
                     <<(at[1] - ViewRadius) + ((i - 1) \div width),
                       (at[2] - ViewRadius) + ((i - 1) % width)>>]
    IN  FlattenSeq([r \in 1..(ViewRadius + 1) |->
                      Keep(square, {k \in Positions : Ring(k, at) = r - 1})])]

Same(c, d) == c.key = d.key /\ c.lod = d.lod

\* Chunks leave the scene for the cache, whose oldest ones beyond the bound are
\* disposed of.  A chunk that is replaced in the cache is not.
Unload(s, chunks) ==
    LET gone == Keep(s.loaded, chunks)
        kept == Keep(s.lru, {d \in Chunk : \A i \in DOMAIN gone : ~Same(gone[i], d)})
        q == kept \o gone
        evicted == Max({0, Len(q) - CacheSize})
    IN  [loaded |-> Keep(s.loaded, {c \in Chunk : c \notin chunks}),
         lru |-> SubSeq(q, evicted + 1, Len(q)),
         alive |-> s.alive - evicted]

BuildChunk(k, at) == [key |-> k, lod |-> Lod(k, at), bare |-> Ring(k, at) > ScatterRadius]

\* Seeded defect: a chunk taken from the cache stays there.
TakeAndLeave(s, k, at) ==
    LET i == SelectInSeq(s.lru, LAMBDA d : d.key = k /\ d.lod = Lod(k, at))
    IN  IF i # 0
          THEN [s EXCEPT !.loaded = Append(@, s.lru[i])]
          ELSE [s EXCEPT !.loaded = Append(@, BuildChunk(k, at)), !.alive = @ + 1]

\* cacheTake ?? buildChunk
TakeOrBuild(s, k, at) ==
    LET i == SelectInSeq(s.lru, LAMBDA d : d.key = k /\ d.lod = Lod(k, at))
    IN  IF i # 0
          THEN [s EXCEPT !.loaded = Append(@, s.lru[i]), !.lru = RemoveAt(@, i)]
          ELSE [s EXCEPT !.loaded = Append(@, BuildChunk(k, at)), !.alive = @ + 1]

\* Seeded defect: a chunk of the other resolution is relabelled.
Relabel(s, k, at) ==
    LET i == SelectInSeq(s.loaded, LAMBDA c : c.key = k)
    IN  IF i # 0 THEN [s EXCEPT !.loaded[i].lod = Lod(k, at)] ELSE TakeOrBuild(s, k, at)

\* A chunk of the other resolution goes to the cache to make room for the right one.
LoadChunk(s, k, at) == TakeOrBuild(Unload(s, {c \in Chunk : c.key = k}), k, at)

\* Seeded defect: a position with a chunk is never looked at again.
MissingOnly(s, at) ==
    Keep(Nearest[at], {k \in Positions : \A i \in DOMAIN s.loaded : s.loaded[i].key # k})

\* The positions that do not have the chunk they should have, nearest first.
Missing(s, at) ==
    Keep(Nearest[at], {k \in Positions :
        \A i \in DOMAIN s.loaded : s.loaded[i].key = k => s.loaded[i].lod # Lod(k, at)})

\* What the scene becomes: sets of one element, as f holds a value and not a formula.
LoadAll(s, todo, at) ==
    LET f[n \in 0..Len(todo)] ==
          IF n = 0 THEN {s} ELSE {LoadChunk(x, todo[n], at) : x \in f[n - 1]}
    IN  f[Len(todo)]

UnloadFar(s, at) == Unload(s, {c \in Chunk : Ring(c.key, at) > ViewRadius})

Budgeted(todo) == SubSeq(todo, 1, Min({BuildBudget, Len(todo)}))

-----------------------------------------------------------------------------
\* A frame: the rover gets no further than a neighbouring chunk, then chunks stream.
Frame(at) ==
    /\ Ring(at, rover) <= 1
    /\ rover' = at
    /\ \E near \in {UnloadFar(scene, at)} : \E todo \in {Budgeted(Missing(near, at))} :
         scene' \in LoadAll(near, todo, at)

\* World.rebuild: the manager is disposed of with all its chunks, and a new one made.
RebuildWorld ==
    /\ scene' = [Empty EXCEPT !.alive = scene.alive - Len(scene.loaded) - Len(scene.lru)]
    /\ UNCHANGED rover

StreamNext == (\E at \in Roam : Frame(at)) \/ RebuildWorld

\* The browser calls tick for every frame it draws, and a rover takes many of them
\* from one border to the next: it does not cross one in every frame.
StreamSpec == StreamInit /\ [][StreamNext]_streamVars /\ WF_streamVars(Frame(rover))
-----------------------------------------------------------------------------
\* The type invariant, part of the next property; the cache keeps to its bound.
StreamTypeOK ==
    /\ rover \in Roam
    /\ scene.loaded \in Seq(Chunk) /\ scene.lru \in Seq(Chunk)
    /\ Len(scene.lru) <= CacheSize
    /\ scene.alive \in Nat

\* Every chunk on the card is in the scene or in the cache, in one of them and once:
\* none is lost without being disposed of, none is disposed of while it is shown, and
\* a position is never drawn twice, whatever way the rover goes.
ChunksAccountedFor ==
    LET all == scene.loaded \o scene.lru
    IN  /\ StreamTypeOK
        /\ scene.alive = Len(all)
        /\ \A i, j \in DOMAIN all : Same(all[i], all[j]) => i = j
        /\ \A i, j \in DOMAIN scene.loaded : scene.loaded[i].key = scene.loaded[j].key => i = j

\* Chunks in high resolution, those the rover is among, have their vegetation, also
\* if they first came up bare at the edge of the view or come out of the cache.
DetailIsVegetated ==
    \A i \in DOMAIN scene.loaded : scene.loaded[i].lod = 0 => ~scene.loaded[i].bare

InView == {k \in Positions : Ring(k, rover) <= ViewRadius}

Settled ==
    /\ {c.key : c \in ToSet(scene.loaded)} = InView
    /\ \A c \in ToSet(scene.loaded) : c.lod = Lod(c.key, rover)

\* A rover that stops, in a world that is not rebuilt any more, ends up in the middle
\* of everything it should see in the resolution it should see it in, although a
\* frame builds no more than its budget and the nearest chunks are always first.
ViewSettles == <>[][UNCHANGED rover /\ ~RebuildWorld]_streamVars => <>[]Settled
=============================================================================
