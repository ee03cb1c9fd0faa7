--------------------------- MODULE MCDiscoveryScan ---------------------------
(* Cards that share handles, each up to three records long, and cards with *)
(* one thing wrong.  Two records and END fill the copy, three exceed it.   *)
EXTENDS DiscoveryScan

H(n) == MakeHandle(9, n, 1)

Res(n) == Record("RESOURCE", RecordSize, H(n), << >>)
Svc(n) == Record("SERVICE", RecordSize, H(n), << >>)
Ins(n) == Record("INSTRUMENTATION", RecordSize, H(n), H(1))
Dep    == Record("DEPENDENCY", RecordSize, H(1), H(2))
Vendor == Record("VENDOR", 16, << >>, << >>)

Built(records) ==
    PatchCrc(Image(Header(OffsetOf(records)[Len(records)], Len(records)), records))

Card(image) == [image |-> image, size |-> image.header.total_length]

Pairs ==
    {<<x, y, End>> : x, y \in {Res(1), Svc(1), Svc(3), Ins(3)}}
    \cup {<<Vendor, Res(2), End>>, <<Dep, Res(2), End>>}

Long == Built(<<Res(1), Svc(2), Ins(4), End>>)
Base == Built(<<Res(5), Svc(6), End>>)

MCImages ==
    {Card(Built(pair)) : pair \in Pairs}
    \cup {Card(Long),
          Card([Long EXCEPT !.records[2].handle = H(7)]),
          Card([Base EXCEPT !.records[2].handle = H(7)]),
          Card([Base EXCEPT !.header.magic = FALSE]),
          Card([Base EXCEPT !.header.version_major = 2]),
          Card([Base EXCEPT !.header.record_count = 2]),
          Card(PatchCrc([Base EXCEPT !.header.record_count = 2])),
          Card(PatchCrc([Base EXCEPT !.header.record_count = 0])),
          Card(PatchCrc([Base EXCEPT !.header.total_length = @ - 8])),
          Card(PatchCrc([Base EXCEPT !.header.total_length = @ + 8])),
          Card(PatchCrc([Base EXCEPT !.records[1].length = 4])),
          Card(PatchCrc([Base EXCEPT !.records[2].length = 48])),
          Card(PatchCrc([Base EXCEPT !.records[1].type = "END"])),
          Card(Built(<<Res(5), Svc(6)>>)),
          Card(Built(<<Record("RESOURCE", 8, H(6), << >>), End>>)),
          [image |-> Base, size |-> Base.header.total_length + 8],
          [image |-> Base, size |-> Base.header.total_length - 8],
          [image |-> Base, size |-> 16]}

MCCapacity == [table \in Tables |-> IF table = "dependencies" THEN 1 ELSE 2]

==============================================================================
