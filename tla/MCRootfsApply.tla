--------------------------- MODULE MCRootfsApply ---------------------------
(***************************************************************************)
(* A small image and the configs it is built from.  Group and user ids are *)
(* scaled down: 1..5 stands for 100..990, of which 4 and 5 are the ids the *)
(* first group may get, and 4 is the first user id.                        *)
(***************************************************************************)
EXTENDS RootfsApply

Plain ==
  [overlay |-> <<>>, lock |-> FALSE, disks |-> <<>>, verity |-> FALSE,
   units |-> <<>>, mounts |-> <<>>, groups |-> <<>>, verify |-> <<>>,
   remove |-> <<>>, removeDirs |-> <<>>,
   profile |-> "minimal", checks |-> {}, include |-> {}, exclude |-> {},
   inbound |-> {}, outbound |-> "deny"]

Tcp(port) == [proto |-> "tcp", port |-> port]
Icmp      == [proto |-> "icmp", port |-> None]
AppPath   == <<"usr/local/bin", "app">>
Helper    == <<"usr/local/bin", "helper">>
Tools     == <<"usr/local/bin", "tools">>
Data      == <<"srv", "data">>
AppFile   == [path |-> AppPath, data |-> "app", suid |-> TRUE]
Unit(name, user, grp) == [name |-> name, user |-> user, group |-> grp]

(* One service with a user in its own group, from an overlay.              *)
Served ==
  [Plain EXCEPT !.overlay = <<AppFile>>, !.lock = TRUE, !.verity = TRUE,
     !.disks = <<"models">>, !.units = <<Unit("app", "app", "svc")>>,
     !.groups = <<"svc">>, !.remove = <<"dash", "sh", "nc">>,
     !.removeDirs = <<"var/lib">>, !.inbound = {Tcp(443), Icmp},
     !.verify = <<[path |-> AppPath, data |-> "app"]>>]

(* The same image later: another group for the service, a second user      *)
(* without one, a unit that is masked, an open firewall, ssh.              *)
Changed ==
  [Plain EXCEPT !.overlay = <<AppFile>>, !.mounts = <<"sys-kernel-config">>,
     !.units = <<Unit("app", "app", "extra"), Unit("web", "web", NoName),
                 Unit("systemd-binfmt", NoName, NoName)>>,
     !.groups = <<"extra", "svc">>, !.outbound = "allow",
     !.profile = "production",
     !.exclude = {"firewall_outbound_deny", "firewall_no_ssh"},
     !.verify = <<[path |-> <<"usr/bin", "su">>, data |-> "su"]>>]

(* More groups and users than there are free ids.                          *)
Crowded ==
  [Plain EXCEPT !.groups = <<"svc", "extra", "app", "web">>,
     !.units = <<Unit("a", "svc", "svc"), Unit("b", "extra", "web"),
                 Unit("c", "app", NoName), Unit("d", "web", "app")>>,
     !.inbound = {Tcp(22)}, !.exclude = {"firewall_no_ssh"}]

(* A resolver of its own, and a pin of a binary that the image has as an   *)
(* absolute link: what is hashed is the file of the host.                  *)
Pinned ==
  [Plain EXCEPT !.overlay = <<[path |-> ResolvConf, data |-> "own dns", suid |-> FALSE]>>,
                !.verify = <<[path |-> Helper, data |-> "helper"]>>]

(* Configs whose apply fails: a new binary under the hash of the old one,  *)
(* a kernel without a required option, a name that is a directory to be    *)
(* removed, and one to be copied to.                                       *)
Upgraded == [Plain EXCEPT !.overlay = <<[AppFile EXCEPT !.data = "new app"]>>,
                          !.verify = Served.verify]
OldKernel == [Plain EXCEPT !.overlay = <<[path |-> BootConfig,
                                         data |-> "old kernel",
                                         suid |-> FALSE]>>]
Directory == [Plain EXCEPT !.remove = <<"tools">>]
Blocked   == [Plain EXCEPT !.overlay = <<[AppFile EXCEPT !.path = Data]>>]

ApplyConfigs == {Served, Changed, Crowded, Pinned, Upgraded, OldKernel, Directory, Blocked}

(* A firewall that opens port 80 and opts out of every check against it.   *)
HttpConfigs ==
  {[Plain EXCEPT !.profile = p, !.inbound = {Tcp(port)},
                 !.exclude = e] :
     p \in Profiles, port \in {22, 80, 443},
     e \in SUBSET {"firewall_no_ssh", "firewall_no_http"}}

SmallTree ==
  <<"usr/bin", "dash">>     :> File("dash") @@
  <<"usr/bin", "sh">>       :> [kind |-> "link", abs |-> FALSE,
                                to |-> <<"usr/bin", "dash">>] @@
  <<"usr/bin", "nc">>       :> Link(<<"/etc/alternatives", "nc">>) @@
  <<"usr/bin", "su">>       :> [File("su") EXCEPT !.suid = TRUE] @@
  Tools                     :> [kind |-> "dir"] @@
  Data                      :> [kind |-> "dir"] @@
  <<"var/lib/apt", "lists">>   :> File("lists") @@
  BootConfig                :> File("kernel") @@
  Helper                    :> Link(<<"opt", "helper">>) @@
  <<"opt", "helper">>       :> File("old helper") @@
  ResolvConf                :> [kind |-> "link", abs |-> FALSE,
                                to |-> <<"run", "resolv.conf">>] @@
  <<"run", "resolv.conf">>  :> Missing @@
  <<"etc", "fstab">>        :> Link(<<"run", "fstab">>)

SmallGroup  == {[name |-> "root", gid |-> 0], [name |-> "mail", gid |-> 5]}
SmallPasswd == {[name |-> "root", uid |-> 0, gid |-> 0, login |-> TRUE],
                [name |-> "mail", uid |-> 3, gid |-> 5, login |-> FALSE]}
SmallShadow == {"root", "mail"}

(* The build host has the helper that the image lacks, and a directory in  *)
(* which a build may create what an image's link leads to.                 *)
SmallHost   == DevNull              :> [kind |-> "device"] @@
               <<"opt", "helper">>  :> File("helper") @@
               <<"run", "fstab">>   :> Missing
SmallWritable == {DevNull, <<"run", "fstab">>}
SmallInside == {<<"var/lib", "var/lib/apt">>}

(* ReuseSucceeds is meant of every config above but that which pins a file *)
(* of the host and that which never succeeds.                              *)
ASSUME ReuseAssumption == \A c \in Configs \ {Pinned, Blocked} : Repeatable(c)
=============================================================================
