---------------------------- MODULE MCProfiles ----------------------------
(* Profiles with a few identities, three boots and four file systems. *)
EXTENDS Profiles

Blank(preset) == [preset |-> preset, system |-> Empty(SystemField), bios |-> None, board |-> None,
                  chassis |-> None]
Own    == <<"own", 1>>
Named  == [Blank("custom") EXCEPT !.system.manufacturer = "Maker", !.system.product = "Box"]
Bios   == [Empty(BiosField) EXCEPT !.release = [major |-> 1, minor |-> 7, zeros |-> TRUE],
                                   !.date = [month |-> 2, day |-> 29, year |-> 2024]]
Board  == [Empty(BoardField) EXCEPT !.serial = Own]

Plain   == Blank("limiar")
Chosen  == [Plain EXCEPT !.system.uuid = NilUuid + 1]
Custom  == [Named EXCEPT !.bios = Bios]
Boarded == [Plain EXCEPT !.board = Board]
Bare    == [Named EXCEPT !.board = Empty(BoardField)]
\* refused
Nameless == Blank("custom")
Nil      == [Plain EXCEPT !.system.uuid = NilUuid]
Late     == [Named EXCEPT !.bios = [Bios EXCEPT !.date.year = 2100]]
Garbled  == [Plain EXCEPT !.chassis = [Empty(ChassisField) EXCEPT !.asset = Bad]]

File(dir, name) == [base |-> dir, name |-> name]
Name(name)      == File(None, name)

Profile(boot, id, paths) ==
  [boot |-> boot, identity |-> id, paths |-> paths, sound |-> TRUE, headless |-> FALSE, virgl |-> FALSE]

LinuxPaths == [runtime |-> Name("vmm"), kernel |-> Name("a"), initrd |-> Name("b")]
UefiPaths  == [runtime |-> File("home", "vmm"), firmware |-> Name("a"), disk |-> Name("c")]
QemuPaths  == [runtime |-> Name("vmm"), firmware |-> Name("a"), variables |-> Name("b"),
               disk |-> Name("c"), cdrom |-> Name("d"), socket |-> Name("s")]

MCWritten ==
       {Profile("linux", id, LinuxPaths) : id \in {None, Plain, Chosen, Custom}}
  \cup {Profile("uefi", id, UefiPaths) : id \in {Plain, Custom}}
  \cup {Profile("qemu", id, QemuPaths) : id \in {Plain, Boarded, Bare}}
  \cup {Profile("qemu", Chosen, [QemuPaths EXCEPT !["cdrom"] = None, !["socket"] = None])}
  \cup {Profile("qemu", id, QemuPaths) : id \in {Nameless, Nil, Late, Garbled}}
  \cup {[Profile("qemu", None, QemuPaths) EXCEPT !.headless = TRUE, !.virgl = TRUE],
        [Profile("linux", None, LinuxPaths) EXCEPT !.sound = FALSE],
        Profile("linux", None, [LinuxPaths EXCEPT !["kernel"] = Bad]),
        Profile("qemu", None, [QemuPaths EXCEPT !["cdrom"] = Name("b")])}

Names     == {"vmm", "a", "b", "c", "d", "s", "."}
Locations == [base : {"home", "root"}, name : Names]
Regular   == [l \in Locations |->
                [kind |-> IF l.name = "." THEN "directory" ELSE IF l.name = "s" THEN "missing" ELSE "file",
                 real |-> l]]
MCFileSystems ==
  {Regular,
   [Regular EXCEPT ![File("home", "d")].real = File("home", "c")],   \* the CD-ROM links to the disk
   [Regular EXCEPT ![File("home", "c")].kind = "missing"],
   [Regular EXCEPT ![File("home", "s")].kind = "file"]}              \* in the socket's place
MCSlips == {<<"system", "uuid">>}
=============================================================================
