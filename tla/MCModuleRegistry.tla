---------------------------- MODULE MCModuleRegistry ---------------------------
(* Three modules: a domain module and the user module that require each        *)
(* other, and a mail module that requires the domain module and shares a      *)
(* class with it.  The directory has them in another order.                  *)
EXTENDS ModuleRegistry

CONSTANTS domain, user, mail, Domain, Alias, User

MCDirectory == <<domain, mail, user>>
MCCircle == [m \in Modules |-> CASE m = domain -> user [] m = mail -> domain
                                   [] OTHER -> domain]
MCClassesOf == [m \in Modules |-> CASE m = domain -> <<Domain, Alias>>
                                    [] m = mail -> <<Alias>> [] OTHER -> <<User>>]
MCObjectsOf == [m \in Modules |-> CASE m = domain -> <<Domain, Alias>>
                                    [] m = mail -> <<>> [] OTHER -> <<User>>]
MCReloads == {{}, {user}}
=============================================================================
