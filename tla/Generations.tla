----------------------------- MODULE Generations -----------------------------
(***************************************************************************)
(* A node's log across starts: log/recovery.rs reads what earlier          *)
(* processes left, the start advances the generation, opens a segment and  *)
(* writes its Rebases, the node serves and syncs, takes images and drops   *)
(* what they cover, and any of it may end in the death of the process, in  *)
(* a loss of power, or in damage to the files.                             *)
(*                                                                         *)
(* A segment is a sequence of cells: a record, a sync mark, or a hole the  *)
(* reader steps over.  A generation has one segment here; rotation within  *)
(* a running node is module LogWriter's.  A shard's state is the sequence  *)
(* of records that made it, indexed by their sequence numbers, so two      *)
(* states are equal exactly when the same writes made them.                *)
(***************************************************************************)
EXTENDS Integers, FiniteSets, FiniteSetsExt, SequencesExt

CONSTANTS Shards,
          MaxGen,        \* bound on the generations
          MaxWrites,     \* bound on the first generation's writes; a later one has fewer
          MaxDamage,     \* bound on the damage to files
          Images         \* whether the node takes images

VARIABLES segs,          \* the segments on disk: generation -> [cuts, header, cells]
          images,        \* the images on disk: [gen, state, entries]
          counter,       \* the generation file
          ghosts,        \* files removed, their removal not yet synced
          node,          \* the process: where its start is, and what it serves
          lineage,       \* per shard, the writes of the state last served
          earlier,       \* the lineages served before it, and of them those
          open,          \* after which no sync has yet proved a node served
          durable,       \* per shard, how many of them a client may count on
          damage         \* the damage done so far

vars == <<segs, images, counter, ghosts, node, lineage, earlier, open, durable, damage>>

NoCut == -1

Record(s, seq, rebase) ==
    [type |-> "rec", shard |-> s, seq |-> seq, rebase |-> rebase, synced |-> FALSE]
Mark == [type |-> "mark", synced |-> FALSE]
Hole == [type |-> "hole", synced |-> TRUE]

Gens == DOMAIN segs

\* The writes among a shard's records: a Rebase changes nothing.
Effects(entries) == SelectSeq(entries, LAMBDA e : ~e.rebase)

Entry(g, c) == [gen |-> g, seq |-> c.seq, rebase |-> c.rebase]

-----------------------------------------------------------------------------
(* Reading the log.                                                        *)

\* A header cut short is a creation that failed: the file holds nothing.  One
\* that cannot be read loses the whole file.
Read == {g \in Gens : segs[g].header = "whole"}

Abandoned == {g \in Gens : segs[g].header = "damaged"}

Places(type) ==
    UNION {{<<g, i>> : i \in {j \in DOMAIN segs[g].cells : segs[g].cells[j].type = type}} :
              g \in Read}

Before(p, q) == p[1] < q[1] \/ (p[1] = q[1] /\ p[2] < q[2])

\* recover, tear_index: the last file, while its generation is the counter's.
TearGen == {g \in Read : g = counter /\ \A h \in Gens : h <= g}

\* classify: a hole past the last mark of that file is a crash's tear.
IsTear(marks, p) == p[1] \in TearGen /\ \A q \in marks : q[1] = p[1] => q[2] < p[2]

\* Scan: every intact record with the file it is in and its position among all
\* records read, and the positions of the holes, charged as losses or as tears.
Scan ==
    LET recs  == Places("rec")
        holes == Places("hole")
        marks == Places("mark")
        tears == {h \in holes : IsTear(marks, h)}
        pos(p) == Cardinality({q \in recs : Before(q, p)})
    IN  [recs   |-> {[gen |-> p[1], shard |-> segs[p[1]].cells[p[2]].shard,
                      seq |-> segs[p[1]].cells[p[2]].seq,
                      rebase |-> segs[p[1]].cells[p[2]].rebase, pos |-> pos(p)] : p \in recs},
         loss   |-> {pos(h) : h \in holes \ tears},
         tears  |-> {pos(h) : h \in tears},
         unread |-> Abandoned \cup {h[1] : h \in holes}]

RecordsOf(scan, s) == {r \in scan.recs : r.shard = s}

\* charge_holes: the latest hole is charged to a shard whose highest record,
\* as last read, is before it.
Charged(scan, s, holes) ==
    holes # {} /\ \A r \in RecordsOf(scan, s) :
        (\A q \in RecordsOf(scan, s) : q.seq < r.seq \/ (q.seq = r.seq /\ q.pos <= r.pos))
            => r.pos < Max(holes)

\* Scan.served: the generations known to have served.
Served(scan) == {r.gen : r \in {q \in scan.recs : ~q.rebase}} \cup {im.gen : im \in images}

RebaseRecords(scan, s) ==
    {<<r.gen, r.seq>> : r \in {q \in RecordsOf(scan, s) : q.rebase}}

\* rebases: where each generation is known to have resumed: from its records,
\* from its segments' headers once it served, from its images' bases.
Rebases(scan, s) ==
    RebaseRecords(scan, s)
    \cup {<<g, segs[g].cuts[s]>> :
             g \in {h \in Read \cap Served(scan) : segs[h].cuts[s] # NoCut}}
    \cup {<<im.gen, Len(im.entries[s])>> : im \in images}

-----------------------------------------------------------------------------
(* Images, then the tail.                                                  *)

Usable(im) == im.state = "finished"

\* is_dead: a newer generation resumed below the image's base.
IsDead(rebases, im, s) == \E r \in rebases : r[1] > im.gen /\ r[2] < Len(im.entries[s])

LiveUnlessCutLast(rebases, r) ==                           \* Planted: only the last cut counts
    \A b \in rebases : b[1] > r.gen /\ b[1] = counter => r.seq < b[2]

\* prefix: a record is dead at or above a newer generation's resume point.
IsLive(rebases, r) == \A b \in rebases : b[1] > r.gen => r.seq < b[2]

\* What pass 3 and pass 4 make of one shard: the newest image that is alive
\* and reads whole, and above it the live records up to the first number that
\* is missing; of two generations' records at one number, the newer one's.
Plan(scan, s) ==
    LET rebases == Rebases(scan, s)
        wanted  == {im \in images : ~IsDead(rebases, im, s)}
        chosen  == {im \in wanted : /\ Usable(im)
                                    /\ \A o \in wanted : Usable(o) => o.gen <= im.gen}
        refused == {im \in wanted : ~Usable(im) /\ \A c \in chosen : c.gen < im.gen}
        image   == IF chosen = {} THEN <<>> ELSE (CHOOSE im \in chosen : TRUE).entries[s]
        base    == Len(image)
        live    == {r \in RecordsOf(scan, s) : r.seq >= base /\ IsLive(rebases, r)}
        numbers == {r.seq : r \in live}
        next    == Min((base .. base + Cardinality(live)) \ numbers)
        at(n)   == CHOOSE r \in live : r.seq = n /\ \A q \in live : q.seq = n => q.gen <= r.gen
    IN  [chosen  |-> chosen, expected |-> next,
         entries |-> image \o [i \in 1 .. next - base |-> Entry(at(base + i - 1).gen, at(base + i - 1))],
         discarded |-> {r \in live : r.seq > next},
         short   |-> {im \in refused : next < Len(im.entries[s])},
         files   |-> {r.gen : r \in {q \in live : q.seq > next}}
                     \cup {at(n).gen : n \in base .. next - 1}]

\* replay_tails: whether damage may have cost the shard records ...
Lossy(scan, plan, s) ==
    \/ Charged(scan, s, scan.loss)
    \/ Abandoned # {}
    \/ plan.short # {}
    \/ plan.discarded # {} /\ scan.loss # {}

\* ... and whether its log must be cut here before it serves.
Cut(scan, plan, s) ==
    plan.discarded # {} \/ Lossy(scan, plan, s) \/ Charged(scan, s, scan.tears)

RecoveredShard(scan, plan, s) ==
    [entries |-> plan.entries, lossy |-> Lossy(scan, plan, s), cut |-> Cut(scan, plan, s)]

\* A segment stays for a record replayed or cut by a gap, and for a Rebase,
\* which must outlive what it kills.
Kept(scan, plans, g) == \/ \E s \in Shards : g \in plans[s].files
                        \/ \E r \in scan.recs : r.gen = g /\ r.rebase

SnapKept(plans, im) == im.state = "damaged" \/ \E s \in Shards : im \in plans[s].chosen \cup plans[s].short

\* remove_garbage: of the files read whole, those nothing needs.
GarbageSegs(scan, plans) == {g \in Gens : ~Kept(scan, plans, g) /\ g \notin scan.unread}

GarbageImages(plans) == {im \in images : ~SnapKept(plans, im)}

-----------------------------------------------------------------------------
(* The start.                                                              *)

Down == [at |-> "down", gen |-> 0, shards |-> <<>>, issued |-> 0, frozen |-> <<>>]

NoGhosts == [segs |-> << >>, images |-> {}]

At(place) == node.at = place

Reported(shards) == [s \in Shards |->
    IF shards[s].lossy THEN Min({durable[s], Len(Effects(shards[s].entries))}) ELSE durable[s]]

\* recover: read everything, rebuild the shards, report what damage may have
\* cost, remove what nothing needs.
Recover ==
    /\ At("down")
    /\ LET scan   == Scan
             plans  == [s \in Shards |-> Plan(scan, s)]
             shards == [s \in Shards |-> RecoveredShard(scan, plans[s], s)]
             gone   == GarbageSegs(scan, plans)
         IN  /\ node' = [Down EXCEPT !.at = "recovered", !.shards = shards]
             /\ segs' = [g \in Gens \ gone |-> segs[g]]
             /\ images' = images \ GarbageImages(plans)
             /\ ghosts' = [segs |-> [g \in gone |-> segs[g]], images |-> GarbageImages(plans)]
             /\ durable' = Reported(shards)
    /\ UNCHANGED <<counter, lineage, earlier, open, damage>>

Synced(cells, upto) ==
    [i \in DOMAIN cells |-> IF i <= upto THEN [cells[i] EXCEPT !.synced = TRUE] ELSE cells[i]]

SyncNothing(g) == segs[g]                               \* Planted: trusts what it read

SyncFile(g) == [segs[g] EXCEPT !.cells = Synced(@, Len(@))]

\* sync_recovered: every file read, then the directory.
SyncRecovered ==
    /\ At("recovered")
    /\ segs' = [g \in Gens |-> SyncFile(g)]
    /\ ghosts' = NoGhosts
    /\ node' = [node EXCEPT !.at = "synced"]
    /\ UNCHANGED <<images, counter, lineage, earlier, open, durable, damage>>

\* next_generation: above the counter and above every file.
NextGeneration ==
    /\ At("synced")
    /\ LET next == Max({counter} \cup Gens \cup {im.gen : im \in images}) + 1
       IN  /\ next <= MaxGen
           /\ counter' = next
           /\ node' = [node EXCEPT !.at = "counted", !.gen = next]
    /\ UNCHANGED <<segs, images, ghosts, lineage, earlier, open, durable, damage>>

CutPoints == [s \in Shards |-> IF node.shards[s].cut THEN Len(node.shards[s].entries) ELSE NoCut]

Adding(g, seg) == [h \in Gens \cup {g} |-> IF h = g THEN seg ELSE segs[h]]

\* Writer::open, create_segment: the header, with the cut points, and its sync.
\* The death of the process in between leaves a header cut short.
Open ==
    /\ At("counted")
    /\ \E whole \in BOOLEAN :
         /\ segs' = Adding(node.gen, [cuts |-> CutPoints, header |-> IF whole THEN "whole" ELSE "short", cells |-> <<>>])
         /\ node' = IF whole THEN [node EXCEPT !.at = "opened"] ELSE Down
    /\ UNCHANGED <<images, counter, ghosts, lineage, earlier, open, durable, damage>>

CutShards == {s \in Shards : node.shards[s].cut}

\* write_rebases, append_now: a Rebase for every shard that was cut.
WriteRebases ==
    /\ At("opened")
    /\ LET order == SetToSeq(CutShards)
           cells == [i \in DOMAIN order |->
                        Record(order[i], Len(node.shards[order[i]].entries), TRUE)]
       IN  segs' = [segs EXCEPT ![node.gen].cells = cells]
    /\ node' = [node EXCEPT !.at = "rebased",
           !.shards = [s \in Shards |-> IF s \notin CutShards THEN @[s] ELSE
               [@[s] EXCEPT !.entries = Append(@, Entry(node.gen, Record(s, Len(@), TRUE)))]]]
    /\ UNCHANGED <<images, counter, ghosts, lineage, earlier, open, durable, damage>>

\* write_rebases, sync_now: the mark and the sync; then the pool serves.
SyncNow ==
    /\ At("rebased")
    /\ segs' = IF CutShards = {} THEN segs
               ELSE [segs EXCEPT ![node.gen].cells = Synced(Append(@, Mark), Len(@) + 1)]
    /\ node' = [node EXCEPT !.at = "up"]
    /\ lineage' = [s \in Shards |-> Effects(node.shards[s].entries)]
    /\ durable' = [s \in Shards |-> Len(lineage'[s])]
    /\ earlier' = earlier \cup {lineage} /\ open' = open \cup {lineage}
    /\ UNCHANGED <<images, counter, ghosts, damage>>

-----------------------------------------------------------------------------
(* The node serves.                                                        *)

Cells == segs[node.gen].cells

Dirty == Cells # <<>> /\ Last(Cells).type = "rec" /\ ~Last(Cells).synced

WritesDone == Cardinality({i \in DOMAIN Cells : Cells[i].type = "rec" /\ ~Cells[i].rebase})

\* A write: its record goes to the open segment, not yet synced.
Write(s) ==
    /\ At("up") /\ WritesDone < MaxWrites + 1 - node.gen
    /\ LET cell == Record(s, Len(node.shards[s].entries), FALSE)
       IN  /\ segs' = [segs EXCEPT ![node.gen].cells = Append(@, cell)]
           /\ node' = [node EXCEPT !.shards[s].entries = Append(@, Entry(node.gen, cell))]
           /\ lineage' = [lineage EXCEPT ![s] = Append(@, Entry(node.gen, cell))]
    /\ UNCHANGED <<images, counter, ghosts, earlier, open, durable, damage>>

Marked(cells) == Append(cells, Mark)

\* maybe_issue: the mark, then the sync, which covers what is written by now.
IssueSync ==
    /\ At("up") /\ Dirty /\ node.issued = 0
    /\ segs' = [segs EXCEPT ![node.gen].cells = Marked(@)]
    /\ node' = [node EXCEPT !.issued = Len(Marked(Cells)),
                            !.frozen = [s \in Shards |-> Len(lineage[s])]]
    /\ UNCHANGED <<images, counter, ghosts, lineage, earlier, open, durable, damage>>

\* settle: what the sync covered is durable, and clients are told so.
SyncDone ==
    /\ At("up") /\ node.issued # 0
    /\ segs' = [segs EXCEPT ![node.gen].cells = Synced(@, node.issued)]
    /\ durable' = node.frozen
    /\ open' = {}
    /\ node' = [node EXCEPT !.issued = 0, !.frozen = <<>>]
    /\ UNCHANGED <<images, counter, ghosts, lineage, earlier, damage>>

\* A snapshot begins: a file with no footer yet, of the state as it is.
BeginImage ==
    /\ Images /\ At("up") /\ \A im \in images : im.gen # node.gen
    /\ images' = images \cup {[gen |-> node.gen, state |-> "begun",
                               entries |-> [s \in Shards |-> node.shards[s].entries]]}
    /\ UNCHANGED <<segs, counter, ghosts, node, lineage, earlier, open, durable, damage>>

\* It ends once the log is synced through what it holds; the writer hears of
\* it (Covered) and compacts.
FinishImage ==
    /\ At("up")
    /\ \E im \in images :
         /\ im.gen = node.gen /\ im.state = "begun"
         /\ \A s \in Shards : Len(Effects(im.entries[s])) <= durable[s]
         /\ images' = (images \ {im}) \cup {[im EXCEPT !.state = "finished"]}
    /\ open' = {}
    /\ node' = [node EXCEPT !.at = "compact"]
    /\ UNCHANGED <<segs, counter, ghosts, lineage, earlier, durable, damage>>

OlderGens == {g \in Gens \cup {im.gen : im \in images} : g < node.gen}

\* The generation whose files go next: the oldest.
OldestFirst == {Min(OlderGens)}

\* remove_older: one generation at a time, its removal synced before the next
\* one's begins.
RemoveOlder ==
    /\ At("compact") /\ ghosts = NoGhosts /\ OlderGens # {}
    /\ \E g \in OldestFirst :
         /\ segs' = [h \in Gens \ {g} |-> segs[h]]
         /\ images' = {im \in images : im.gen # g}
         /\ ghosts' = [segs |-> [h \in Gens \cap {g} |-> segs[h]],
                       images |-> {im \in images : im.gen = g}]
    /\ UNCHANGED <<counter, node, lineage, earlier, open, durable, damage>>

SyncRemovals ==
    /\ At("compact") /\ ghosts # NoGhosts
    /\ ghosts' = NoGhosts
    /\ UNCHANGED <<segs, images, counter, node, lineage, earlier, open, durable, damage>>

Compacted ==
    /\ At("compact") /\ ghosts = NoGhosts /\ OlderGens = {}
    /\ node' = [node EXCEPT !.at = "up"]
    /\ UNCHANGED <<segs, images, counter, ghosts, lineage, earlier, open, durable, damage>>

-----------------------------------------------------------------------------
(* The process dies, and what it wrote stays; or the power goes, and of    *)
(* what was not synced any part may be lost, out of order.                 *)

Kill == /\ ~At("down")
        /\ node' = Down
        /\ UNCHANGED <<segs, images, counter, ghosts, lineage, earlier, open, durable, damage>>

\* What a loss of power may leave of a segment: of the unsynced cells any,
\* the lost ones among the kept a hole, and after the last of them a hole or
\* the end of the file.
Left(cells) ==
    LET lost(i) == ~cells[i].synced
        synced  == {0} \cup {i \in DOMAIN cells : ~lost(i)}
    IN  {[i \in 1 .. len |-> IF lost(i) /\ i \in gone THEN Hole
                             ELSE [cells[i] EXCEPT !.synced = TRUE]] :
            len \in Max(synced) .. Len(cells), gone \in SUBSET {i \in DOMAIN cells : lost(i)}}

PowerLoss ==
    /\ node' = Down
    /\ \E back \in SUBSET DOMAIN ghosts.segs, again \in SUBSET ghosts.images,
          unended \in SUBSET {im \in images : im.state = "begun"} :
         LET all == [g \in Gens \cup back |-> IF g \in Gens THEN segs[g] ELSE ghosts.segs[g]]
             unsynced == {g \in DOMAIN all : \E i \in DOMAIN all[g].cells : ~all[g].cells[i].synced}
         IN  /\ \E left \in [unsynced -> UNION {Left(all[g].cells) : g \in unsynced}] :
                  /\ \A g \in unsynced : left[g] \in Left(all[g].cells)
                  /\ segs' = [g \in DOMAIN all |-> IF g \in unsynced
                                 THEN [all[g] EXCEPT !.cells = left[g]] ELSE all[g]]
             /\ images' = (images \ unended) \cup again
    /\ ghosts' = NoGhosts
    /\ UNCHANGED <<counter, lineage, earlier, open, durable, damage>>

Damaged(g, seg) == [segs EXCEPT ![g] = seg]

\* Damage to the files of a node that is down, synced or not: to what one cell
\* holds, to a segment's header, or to an image's body.  A mark is damaged alone:
\* lost together with a record it followed, nothing tells that record was synced.
Damage ==
    /\ At("down") /\ damage < MaxDamage
    /\ \/ /\ \E g \in Read :
                \/ \E i \in DOMAIN segs[g].cells :
                       /\ segs' = Damaged(g, [segs[g] EXCEPT !.cells[i] = Hole])
                       /\ segs[g].cells[i].type = "mark" => damage = 0
                       /\ damage' = IF segs[g].cells[i].type = "mark" THEN MaxDamage ELSE damage + 1
                \/ /\ segs' = Damaged(g, [segs[g] EXCEPT !.header = "damaged"])
                   /\ damage' = damage + 1
          /\ UNCHANGED images
       \/ /\ \E im \in images : images' = (images \ {im}) \cup {[im EXCEPT !.state = "damaged"]}
          /\ damage' = damage + 1
          /\ UNCHANGED segs
    /\ UNCHANGED <<counter, ghosts, node, lineage, earlier, open, durable>>

Init ==
    /\ segs = << >> /\ images = {} /\ counter = 0 /\ ghosts = NoGhosts /\ node = Down
    /\ lineage = [s \in Shards |-> <<>>] /\ durable = [s \in Shards |-> 0]
    /\ damage = 0 /\ earlier = {} /\ open = {}

Next ==
    \/ Recover \/ SyncRecovered \/ NextGeneration \/ Open \/ WriteRebases \/ SyncNow
    \/ \E s \in Shards : Write(s)
    \/ IssueSync \/ SyncDone
    \/ BeginImage \/ FinishImage \/ RemoveOlder \/ SyncRemovals \/ Compacted
    \/ Kill \/ PowerLoss \/ Damage

Spec == Init /\ [][Next]_vars

-----------------------------------------------------------------------------
(* Properties.                                                             *)

\* What a start rebuilds for a shard is a state some node served it in, never a
\* mix of records that were cut with those written instead, whatever was torn,
\* damaged or removed on the way (recovery.rs prefix, rebases, is_dead).  And
\* unless the shard is reported lossy it is a state of the last node that
\* served; a node that cut and then wrote nothing a sync covered leaves no
\* trace of having served, and does not count.
StateWasServed ==
    At("recovered") => \A s \in Shards :
        \E l \in {lineage} \cup (IF node.shards[s].lossy THEN earlier ELSE open) :
            IsPrefix(Effects(node.shards[s].entries), l[s])

\* A write a client was told is durable is there at every later start, or the
\* start that misses it reports its shard lossy (recovery.rs Lossy).
DurableOrReported ==
    At("recovered") => \A s \in Shards : Len(Effects(node.shards[s].entries)) >= durable[s]

\* The records on disk never skip a number of what is served: while the node
\* is up, an undamaged read of its directory gives back its own state.
DiskHoldsState ==
    At("up") => LET scan == Scan
                IN  \A s \in Shards : Plan(scan, s).entries = node.shards[s].entries
=============================================================================
