------------------------------ MODULE Firewall ------------------------------
(***************************************************************************)
(* The firewall of a config on its way into an image.  Two components look *)
(* at it: the checks of cvmbuild-config decide before a build whether the  *)
(* config is accepted, and validate_nftables of cvmbuild-rootfs looks at   *)
(* the generated rules at the very end of apply.  An image author opts out *)
(* of either through [assert].exclude.                                     *)
(*                                                                         *)
(* Only the checks about the firewall are told apart; "other" stands for a *)
(* check of the catalog about something else, which the config passes.     *)
(***************************************************************************)
EXTENDS Naturals

CONSTANT None  \* a key the config does not set

(* An inbound rule: tcp and udp have a port, icmp and icmpv6 have none.    *)
PortProtos     == {"tcp", "udp"}
PortlessProtos == {"icmp", "icmpv6"}

Catalog ==
  {"firewall_outbound_deny", "firewall_no_ssh", "firewall_no_http",
   "firewall_no_telnet", "firewall_no_ftp", "other"}

ProfileChecks(profile) ==
  CASE profile = "production"  -> Catalog
    [] profile = "standard"    -> Catalog \ {"firewall_no_telnet",
                                             "firewall_no_ftp"}
    [] profile = "development" -> {"firewall_outbound_deny",
                                   "firewall_no_ssh", "other"}
    [] profile = "minimal"     -> {"firewall_outbound_deny", "other"}

Profiles == {"production", "standard", "development", "minimal"}

(* The ports a catalog check forbids.                                      *)
Forbidden(check) ==
  CASE check = "firewall_no_ssh"    -> {22}
    [] check = "firewall_no_http"   -> {80}
    [] check = "firewall_no_telnet" -> {23}
    [] check = "firewall_no_ftp"    -> {20, 21}
    [] OTHER                        -> {}

(* The config does not pass this catalog check.                            *)
Fails(f, check) ==
  \/ check = "firewall_outbound_deny" /\ f.outbound # "deny"
  \/ \E r \in f.inbound : r.port \in Forbidden(check)

(* The checks that are always on.                                          *)
StructurallySound(f) ==
  /\ f.outbound \in {"deny", "allow"}
  /\ \A r \in f.inbound :
       \/ r.proto \in PortProtos /\ r.port # None /\ r.port # 0
       \/ r.proto \in PortlessProtos /\ r.port = None

(* [assert]: a list of checks, or a profile with additions and exclusions; *)
(* include and exclude are not looked at when there is a list.             *)
ResolveOk(f) ==
  /\ ~(f.profile # None /\ f.checks # {})
  /\ ~(f.profile = None /\ f.checks = {} /\ f.include \cup f.exclude # {})
  /\ IF f.checks # {}
     THEN f.checks \subseteq Catalog
     ELSE /\ f.profile \in Profiles \cup {None}
          /\ f.include \cup f.exclude \subseteq Catalog

ResolveChecks(f) ==
  IF f.checks # {} THEN f.checks
  ELSE (ProfileChecks(IF f.profile = None THEN "production" ELSE f.profile)
          \cup f.include) \ f.exclude

(* A build goes ahead with the config.                                     *)
Accepted(f) ==
  /\ StructurallySound(f)
  /\ ResolveOk(f)
  /\ \A check \in ResolveChecks(f) : ~Fails(f, check)

(* /etc/nftables.conf: how many of its chains drop, and which ports they   *)
(* open; a rule of another protocol opens none.                            *)
NftablesConf(f) ==
  [drops |-> IF f.outbound = "allow" THEN 2 ELSE 3,
   ports |-> {r.port : r \in {r \in f.inbound :
                              r.proto \in PortProtos /\ r.port # None}}]

(* The last check of apply, of the rules that lie in the image.            *)
ValidateNftables(rules, f) ==
  LET open == "firewall_outbound_deny" \in f.exclude IN
  /\ rules.drops >= (IF open THEN 2 ELSE 3)
  /\ "firewall_no_ssh" \notin f.exclude => 22 \notin rules.ports
  /\ "firewall_no_http_plain" \notin f.exclude => 80 \notin rules.ports
  /\ f.outbound = "deny" \/ open

(* nftables is enabled in the image.                                       *)
NftablesOn(f) == f.inbound # {} \/ f.outbound = "deny"

(* The author of the config has opted out of every firewall check of the   *)
(* catalog that it does not pass.                                          *)
OptedOut(f) == \A check \in Catalog : Fails(f, check) => check \in f.exclude

=============================================================================
