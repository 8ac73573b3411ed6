------------------------------ MODULE ServiceKernel -----------------------------
(***************************************************************************)
(* The service locator (Kernel/Kernel.c, Kernel.h): a fixed table of       *)
(* services, which of them are registered and which active, and the two    *)
(* lookups.  The state is kept twice, in the flags of each entry and in    *)
(* two bit masks; the lookups read the masks.  Diagnostics are left out.   *)
(***************************************************************************)
EXTENDS Naturals, FiniteSets, FiniteSetsExt

CONSTANTS
  Count,      (* KRN_COUNT, 13 in the code                                 *)
  Proxied,    (* the slots with a null object                              *)
  Names,      (* service names                                             *)
  Unnamed,    (* the name of a service registered without one              *)
  Instances,  (* implementations                                           *)
  Proxy,      (* stands for the null object of a slot                      *)
  Null        (* the null pointer                                          *)

Ids == 0 .. Count - 1

ASSUME KernelAssumption ==
  /\ Count \in Nat
  /\ Proxied \subseteq Ids
  /\ Unnamed \in Names
  /\ Null \notin Instances \cup Names /\ Proxy \notin Instances \cup {Null}

VARIABLES
  services,    (* the table: name, instance and flags                      *)
  registered,  (* registered_mask                                          *)
  active       (* active_mask                                              *)

kernelVars == <<services, registered, active>>

Empty == [name |-> Null, instance |-> Null, flags |-> {}]

KernelTypeOK ==
  /\ services \in [Ids -> [name : Names \cup {Null}, instance : Instances \cup {Null},
                           flags : SUBSET {"OCCUPIED", "ACTIVE"}]]
  /\ registered \subseteq Ids
  /\ active \subseteq Ids

KernelInit ==
  /\ services = [id \in Ids |-> Empty]
  /\ registered = {}
  /\ active = {}

-------------------------------------------------------------------------------
(* Mutant: a service that is replaced stays active. *)
MutRegister(id, name, instance) ==
  /\ instance # Null
  /\ services' = [services EXCEPT ![id] =
                    [name |-> IF name = Null THEN Unnamed ELSE name,
                     instance |-> instance, flags |-> {"OCCUPIED"}]]
  /\ registered' = registered \cup {id}
  /\ UNCHANGED active

(* A slot in use is overwritten.  The service starts inactive. *)
Register(id, name, instance) ==
  /\ instance # Null
  /\ services' = [services EXCEPT ![id] =
                    [name |-> IF name = Null THEN Unnamed ELSE name,
                     instance |-> instance, flags |-> {"OCCUPIED"}]]
  /\ registered' = registered \cup {id}
  /\ active' = active \ {id}

Activate(id) ==
  /\ id \in registered
  /\ services' = [services EXCEPT ![id].flags = @ \cup {"ACTIVE"}]
  /\ active' = active \cup {id}
  /\ UNCHANGED registered

Deactivate(id) ==
  /\ id \in registered
  /\ services' = [services EXCEPT ![id].flags = @ \ {"ACTIVE"}]
  /\ active' = active \ {id}
  /\ UNCHANGED registered

(* Every registered service is deactivated first, and then the table and   *)
(* the masks are cleared.                                                  *)
ShutdownAll ==
  /\ services' = [id \in Ids |-> Empty]
  /\ registered' = {}
  /\ active' = {}

KernelNext ==
  \/ \E id \in Ids :
       \/ \E name \in Names \cup {Null}, instance \in Instances : Register(id, name, instance)
       \/ Activate(id)
       \/ Deactivate(id)
  \/ ShutdownAll

-------------------------------------------------------------------------------
(* kernel_has, kernel_get and kernel_get_by_name.                          *)

Has(id) == id \in registered /\ id \in active

(* Mutant: a service that is registered is found, switched off or not. *)
MutGet(id) ==
  IF id \in registered THEN services[id].instance
  ELSE IF id \in Proxied THEN Proxy
  ELSE Null

Get(id) ==
  IF Has(id) THEN services[id].instance
  ELSE IF id \in Proxied THEN Proxy
  ELSE Null

(* Mutant: the lookup by name finds inactive services. *)
MutGetByName(name) ==
  LET found == {id \in Ids : id \in registered /\ services[id].name = name}
  IN  IF found = {} THEN Null ELSE services[Min(found)].instance

(* The first active service of that name.  Names are compared by a hash    *)
(* and then character by character, which is to say compared.              *)
GetByName(name) ==
  LET found == {id \in Ids : Has(id) /\ services[id].name = name}
  IN  IF found = {} THEN Null ELSE services[Min(found)].instance

-------------------------------------------------------------------------------
(* The two records of the same facts agree, through replacements and       *)
(* shutdowns: the flags of a slot say what the masks say, and a slot that  *)
(* is active has an implementation (Kernel.c:291-332).                     *)
FlagsMatchMasks ==
  \A id \in Ids :
    /\ id \in registered <=> "OCCUPIED" \in services[id].flags
    /\ id \in active <=> "ACTIVE" \in services[id].flags
    /\ id \in active => id \in registered
    /\ id \in registered <=> services[id].instance # Null

(* The lookup by number gives an implementation exactly while the service *)
(* is switched on; otherwise it gives the null object, if the slot has one. *)
(* A caller that finds a service by its name gets what a caller that knows *)
(* its number would get, and nothing while no service of that name is      *)
(* switched on (Kernel.c:360-393, Kernel.h:202-226).                       *)
LookupsAgree ==
  /\ \A id \in Ids :
       /\ Get(id) \in Instances <=> "ACTIVE" \in services[id].flags
       /\ Get(id) \notin Instances => Get(id) = IF id \in Proxied THEN Proxy ELSE Null
  /\ \A name \in Names :
       LET live == {id \in Ids : "ACTIVE" \in services[id].flags /\ services[id].name = name}
       IN  IF live = {} THEN GetByName(name) = Null
           ELSE \E id \in live : GetByName(name) = Get(id)

(* All records of the services tell the same: flags, masks, and the two    *)
(* ways to find one, through replacements, switches and shutdowns          *)
(* (Kernel.c:291-393).                                                     *)
ServicesAgree == FlagsMatchMasks /\ LookupsAgree
===============================================================================
