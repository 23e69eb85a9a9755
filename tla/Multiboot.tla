-------------------------------- MODULE Multiboot ------------------------------
(***************************************************************************)
(* kernel/kernel.c: convert_mb2_to_mb1 reads the tags that the boot loader *)
(* left, into one information structure and one memory map of at most Cap  *)
(* entries; kernel_main (as pmm_init and init_heap do) then walks the map  *)
(* by the size field of its entries and adds up the RAM.                   *)
(***************************************************************************)
EXTENDS Integers, Sequences

CONSTANTS
    Cap,        \* entries of g_mmap_buffer (128)
    EntryBytes, \* sizeof(multiboot_memory_map_t), 24: its size field and 20
    Loaders     \* the sequences of tags that a boot loader may leave

Sizes   == {n \in Nat : n >= 8}
Regions == [addr : Nat, len : Nat, type : Nat]
Tags ==
    [type : {"basic"}, size : Sizes, mem_upper : Nat]
    \cup [type : {"framebuffer"}, size : Sizes, screen : Nat]
    \cup [type : {"loader", "other", "end"}, size : Sizes]
    \cup [type : {"mmap"}, size : Sizes, entry_size : Nat \ {0}, entries : Seq(Regions)]

\* A map tag is as long as its entries, and the end tag is the last.
LoadersAssumption ==
    /\ Cap \in Nat /\ EntryBytes \in Nat \ (0 .. 4)
    /\ \A ts \in Loaders :
          /\ ts \in Seq(Tags)
          /\ \A k \in DOMAIN ts :
                /\ ts[k].type = "end" => k = Len(ts)
                /\ ts[k].type = "mmap" =>
                      (ts[k].size - 16) \div ts[k].entry_size = Len(ts[k].entries)

VARIABLES
    tags,           \* what it left: [type, size, ...]
    loader_pc,      \* "tags", "walk" or "done"
    tag,            \* offset of the tag looked at
    g_mmap_buffer,  \* its first mmap_count entries
    g_mb_info,
    mmap,           \* the walk's offset in the buffer
    total_ram

loaderVars == <<tags, loader_pc, tag, g_mmap_buffer, g_mb_info, mmap, total_ram>>

--------------------------------------------------------------------------------
(* The boot loader (external): a tag starts at the next multiple of eight. *)

\* The sums of the first numbers of w, and the first sequences of w joined.
Sums(w, n)   == LET s[k \in 0 .. n] == IF k = 0 THEN 0 ELSE s[k - 1] + w[k] IN s
Joined(w, n) == LET s[k \in 0 .. n] == IF k = 0 THEN <<>> ELSE s[k - 1] \o w[k] IN s

Padded(n) == n + ((8 - (n % 8)) % 8)
Start(k)  == 8 + Sums([x \in DOMAIN tags |-> Padded(tags[x].size)], Len(tags))[k - 1]
total_size == Start(Len(tags) + 1)

Starts == {k \in DOMAIN tags : Start(k) = tag}
TagAt  == tags[CHOOSE k \in Starts : TRUE]

--------------------------------------------------------------------------------
(* convert_mb2_to_mb1 *)

NotAligned(n) == n
Aligned(n) == ((n + 7) \div 8) * 8

FillAgain(t) ==
    LET n == (t.size - 16) \div t.entry_size
    IN  [k \in 1 .. n |-> [size |-> EntryBytes - 4, addr |-> t.entries[k].addr,
                          len |-> t.entries[k].len, type |-> t.entries[k].type]]

\* The entries of a tag go behind those of the tags before it, while there is room.
FillMap(t) ==
    LET n    == (t.size - 16) \div t.entry_size
        room == Cap - Len(g_mmap_buffer)
    IN  g_mmap_buffer \o [k \in 1 .. (IF n < room THEN n ELSE room) |->
                             [size |-> EntryBytes - 4, addr |-> t.entries[k].addr,
                              len |-> t.entries[k].len, type |-> t.entries[k].type]]

ConvertTag(t) ==
    CASE t.type = "basic" ->
            /\ g_mb_info' = [g_mb_info EXCEPT !.mem_upper = t.mem_upper, !.flags = @ \cup {"memory"}]
            /\ UNCHANGED g_mmap_buffer
      [] t.type = "mmap" ->
            /\ g_mmap_buffer' = FillMap(t)
            /\ g_mb_info' = [g_mb_info EXCEPT !.mmap_length = Len(g_mmap_buffer') * EntryBytes,
                                              !.flags = @ \cup {"mem_map"}]
      [] t.type = "loader" ->
            /\ g_mb_info' = [g_mb_info EXCEPT !.flags = @ \cup {"loader_name"}]
            /\ UNCHANGED g_mmap_buffer
      [] t.type = "framebuffer" ->
            /\ g_mb_info' = [g_mb_info EXCEPT !.framebuffer = t.screen, !.flags = @ \cup {"framebuffer"}]
            /\ UNCHANGED g_mmap_buffer
      [] t.type = "other" -> UNCHANGED <<g_mmap_buffer, g_mb_info>>

ReadTag ==
    /\ loader_pc = "tags" /\ tag < total_size /\ TagAt.type # "end"
    /\ ConvertTag(TagAt)
    /\ tag' = tag + Aligned(TagAt.size)
    /\ UNCHANGED <<tags, loader_pc, mmap, total_ram>>

EndOfTags ==
    /\ loader_pc = "tags" /\ (tag < total_size => TagAt.type = "end")
    /\ loader_pc' = IF "mem_map" \in g_mb_info.flags THEN "walk" ELSE "done"
    /\ UNCHANGED <<tags, tag, g_mmap_buffer, g_mb_info, mmap, total_ram>>

--------------------------------------------------------------------------------
(* The walk through the map *)

Entry == g_mmap_buffer[1 + mmap \div EntryBytes]

StrideTwo(e) == 2 * (e.size + 4)
Stride(e) == e.size + 4

WalkMap ==
    /\ loader_pc = "walk" /\ mmap < g_mb_info.mmap_length
    /\ total_ram' = IF Entry.type = 1 THEN total_ram + Entry.len ELSE total_ram
    /\ mmap' = mmap + Stride(Entry)
    /\ UNCHANGED <<tags, loader_pc, tag, g_mmap_buffer, g_mb_info>>

EndOfMap ==
    /\ loader_pc = "walk" /\ mmap >= g_mb_info.mmap_length
    /\ loader_pc' = "done"
    /\ UNCHANGED <<tags, tag, g_mmap_buffer, g_mb_info, mmap, total_ram>>

LoaderInit ==
    /\ tags \in Loaders
    /\ loader_pc = "tags" /\ tag = 8
    /\ g_mmap_buffer = <<>>
    /\ g_mb_info = [flags |-> {}, mem_upper |-> 0, mmap_length |-> 0, framebuffer |-> 0]
    /\ mmap = 0 /\ total_ram = 0

LoaderNext == ReadTag \/ EndOfTags \/ WalkMap \/ EndOfMap

LoaderSpec == LoaderInit /\ [][LoaderNext]_loaderVars

--------------------------------------------------------------------------------
(* Properties *)

(* The walk over the tags, whatever their lengths, only ever looks at the  *)
(* start of a tag and stops at the end of what the loader left.            *)
WalksTags == loader_pc = "tags" => Starts # {} \/ tag = total_size

MapsOf == [k \in DOMAIN tags |-> IF tags[k].type = "mmap" THEN tags[k].entries ELSE <<>>]
Maps == Joined(MapsOf, Len(tags))[Len(tags)]
Kept == SubSeq(Maps, 1, IF Len(Maps) < Cap THEN Len(Maps) ELSE Cap)
Of(t) == {k \in DOMAIN tags : tags[k].type = t}
LastOf(t) == {k \in Of(t) : \A l \in Of(t) : l <= k}

(* The map holds, in order, the entries of all map tags up to its limit,   *)
(* whatever the size that the loader gives an entry, and the other fields  *)
(* are those of the last tag of their kind.                                *)
MapFaithful ==
    loader_pc # "tags" =>
        /\ LET kept == Kept
           IN  /\ Len(g_mmap_buffer) = Len(kept)
               /\ \A k \in DOMAIN kept : \A f \in {"addr", "len", "type"} :
                     g_mmap_buffer[k][f] = kept[k][f]
        /\ \A k \in LastOf("basic") : g_mb_info.mem_upper = tags[k].mem_upper
        /\ \A k \in LastOf("framebuffer") : g_mb_info.framebuffer = tags[k].screen
        /\ ("mem_map" \in g_mb_info.flags) = (Of("mmap") # {})
        /\ ("framebuffer" \in g_mb_info.flags) = (Of("framebuffer") # {})

(* The RAM that the walk adds up is that of the kept entries, each once:   *)
(* the stride of the walk fits the entries that the conversion wrote.      *)
RamOf == LET kept == Kept IN [k \in DOMAIN kept |-> IF kept[k].type = 1 THEN kept[k].len ELSE 0]
RamCounted == loader_pc = "done" => total_ram = Sums(RamOf, Len(Kept))[Len(Kept)]

(* The loader's tags are read from start to start up to the end, the map   *)
(* that the allocator and the heap go by is the loader's as far as there   *)
(* is room, and the RAM is that of the entries kept, each once.            *)
LoaderRead == WalksTags /\ MapFaithful /\ RamCounted
================================================================================
