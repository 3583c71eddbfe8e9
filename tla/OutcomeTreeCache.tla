-------------------------- MODULE OutcomeTreeCache --------------------------
(***************************************************************************)
(* The paged least-recently-used cache of fissionspec/fidelity.py as pure  *)
(* operators on [entries, tick, bytes, pages, peak].  An entry is          *)
(* [bytes, pages, tick]; its tick is that of its last insert or hit, so    *)
(* ticks of entries differ and the tie-break by key is never used.         *)
(* bytes, pages and peak are counters kept beside the entries.             *)
(***************************************************************************)
EXTENDS Integers, FiniteSets, FiniteSetsExt

CONSTANTS ByteBudget, PageBytes

PageBudget == ByteBudget \div PageBytes

ASSUME CacheAssumption ==
    ByteBudget \in Nat /\ PageBytes \in Nat \ {0} /\ PageBudget > 0

NewCache == [entries |-> [k \in {} |-> 0], tick |-> 0, bytes |-> 0, pages |-> 0, peak |-> 0]

BytesOf(entries, keys) == MapThenSumSet(LAMBDA k : entries[k].bytes, keys)
PagesOf(entries, keys) == MapThenSumSet(LAMBDA k : entries[k].pages, keys)

\* The pages of what is removed are not given back (CacheAudit).
WrongRemoveKeys(c, keys) ==
    [c EXCEPT !.entries = [k \in DOMAIN @ \ keys |-> @[k]],
              !.bytes = @ - BytesOf(c.entries, keys)]

RemoveKeys(c, keys) ==
    [c EXCEPT !.entries = [k \in DOMAIN @ \ keys |-> @[k]],
              !.bytes = @ - BytesOf(c.entries, keys),
              !.pages = @ - PagesOf(c.entries, keys)]

\* Oldest first, until `pages` fit: an entry stays if it and what is newer
\* leave room for them.
Victims(c, pages) ==
    {k \in DOMAIN c.entries :
        PagesOf(c.entries, {j \in DOMAIN c.entries : c.entries[j].tick >= c.entries[k].tick})
            + pages > PageBudget}

PagesNeeded(bytes) == (bytes + PageBytes - 1) \div PageBytes

\* The mutation insert returns, [cache, evicted].
Insert(c, key, bytes) ==
    LET pages   == PagesNeeded(bytes)
        others  == RemoveKeys(c, DOMAIN c.entries \cap {key})
        victims == Victims(others, pages)
        kept    == RemoveKeys(others, victims)
        entry   == [bytes |-> bytes, pages |-> pages, tick |-> c.tick + 1]
    IN  IF pages > PageBudget THEN [cache |-> c, evicted |-> {}]
        ELSE [evicted |-> victims,
              cache |-> [entries |-> [k \in DOMAIN kept.entries \cup {key} |->
                                         IF k = key THEN entry ELSE kept.entries[k]],
                         tick |-> c.tick + 1,
                         bytes |-> kept.bytes + bytes,
                         pages |-> kept.pages + pages,
                         peak |-> Max({c.peak, kept.pages + pages})]]

Holds(c, key) == key \in DOMAIN c.entries

\* lookup: a hit makes the entry the most recent one, a miss changes nothing.
Touch(c, key) ==
    IF ~Holds(c, key) THEN c
    ELSE [c EXCEPT !.tick = @ + 1, !.entries[key].tick = c.tick + 1]

\* discard of each key that is there.
Discard(c, keys) == RemoveKeys(c, keys \cap DOMAIN c.entries)

\* audit(), and that the peak is one.
CacheAuditOf(c) ==
    /\ c.bytes = BytesOf(c.entries, DOMAIN c.entries)
    /\ c.pages = PagesOf(c.entries, DOMAIN c.entries)
    /\ c.pages * PageBytes <= ByteBudget
    /\ c.pages <= c.peak /\ c.peak <= PageBudget

=============================================================================
