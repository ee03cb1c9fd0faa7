----------------------------- MODULE MkDiscovery -----------------------------
(***************************************************************************)
(* tools/mkdiscovery/mkdiscovery.c: the reference images it writes, one    *)
(* per profile.  Type and service numbers are those of resource_types.h    *)
(* and service_ids.h.                                                      *)
(***************************************************************************)
EXTENDS Discovery

CONSTANT MaxImage       \* MKDISCOVERY_MAX_IMAGE

ASSUME MaxImageAssumption == MaxImage \in Nat

ResourceSupervisor    == 16
ResourceLogicAnalyzer == 4096
ResourceCpu           == 8192
ResourceCpuHealth     == 8195

ServiceHealth          == 6
ServiceInstrumentation == 4096
ServiceCpuDiagnostics  == 8192
ServiceCpuHealth       == 8193

Profiles == {"minimal", "cpu-card", "supervisor", "instrumentation"}

ProviderId(profile) ==
    CASE profile = "supervisor" -> 1 [] profile = "instrumentation" -> 5 [] OTHER -> 3

AppendResource(type, provider) ==
    Record("RESOURCE", RecordSize, MakeHandle(provider, type, 1), << >>)

AppendService(id, provider) ==
    Record("SERVICE", RecordSize, MakeHandle(provider, id, 1), << >>)

ProfileRecords(profile) ==
    LET p == ProviderId(profile)
    IN  CASE profile = "minimal" -> << >>
          [] profile = "cpu-card" ->
               <<AppendResource(ResourceCpu, p), AppendResource(ResourceCpuHealth, p),
                 AppendService(ServiceCpuDiagnostics, p), AppendService(ServiceCpuHealth, p)>>
          [] profile = "supervisor" ->
               <<AppendResource(ResourceSupervisor, p), AppendService(ServiceHealth, p)>>
          [] profile = "instrumentation" ->
               <<AppendResource(ResourceLogicAnalyzer, p),
                 AppendService(ServiceInstrumentation, p)>>

(* Both CRC fields are zero when the header's is computed, and the image's *)
(* is computed with the header's in place.                                 *)
PatchCrcImageFirst(image) ==
    [image EXCEPT !.header.image_crc32 = ImageCrc(image),
                  !.header.header_crc32 = HeaderCrc(image)]

PatchCrc(image) ==
    LET cleared == [image EXCEPT !.header = WithoutCrcs(@)]
        headed  == [cleared EXCEPT !.header.header_crc32 = HeaderCrc(cleared)]
    IN  [headed EXCEPT !.header.image_crc32 = ImageCrc(headed)]

(* END is appended and counted like a record.  The image is written only   *)
(* if it fits.                                                             *)
BuildProfile(profile) ==
    LET records == Append(ProfileRecords(profile), End)
        length  == OffsetOf(records)[Len(records)]
    IN  IF length > MaxImage THEN << >>
        ELSE <<PatchCrc(Image(Header(length, Len(records)), records))>>

==============================================================================
