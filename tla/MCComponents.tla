------------------------------ MODULE MCComponents ------------------------------
(* Instances for TLC of the components that share no state: the initial    *)
(* state chooses one of them, and only its steps follow.                   *)
EXTENDS Quota, Enforcement, Metering, Storage, Sessions, Accounts, Tenancy,
        Consent, Streams, Flags, Dashboard, Wizard, Previews, Builds, Usage,
        Profile, Configs, TLC
CONSTANTS s1, s2, u1, u2, a1, a2

VARIABLE part   \* the component whose behaviour this is

MCPayer == s1 :> u1 @@ s2 :> u2
MCTagsOf == [s \in Services |-> {"built", "pulled"}]
MCMaxVersions == "terms" :> 2 @@ "privacy" :> 1
MCMakerOf == s1 :> u1 @@ s2 :> u2
MCTeamOf == s1 :> "team" @@ s2 :> "team"
MCOrder == [type |-> "DOCKER", prebuilt |-> FALSE, text |-> "word"]
MCNetworks == {{}, {LongerNet}, {SharedNet, OwnNet}}
MCOwnerOf == "a" :> "user" @@ "b" :> "org" @@ "c" :> "org"

(* a1 and a2 stand for whatever comes in alike pairs.                      *)
AlikeSymmetry == Permutations({a1, a2})

(* Bounds: one page at a time has asked about the privacy policy; and of   *)
(* pull requests nothing follows what ClosedLeavesNone does not look at.   *)
Bounds ==
  /\ \A p, q \in Pages :
       p = q \/ Nothing \in {page[p]["privacy"], page[q]["privacy"]}
  /\ calm

Init ==
  /\ part \in {"quota", "enforcement", "metering", "storage", "sessions",
               "accounts", "tenancy", "consent", "streams",
               "flags", "dashboard", "wizard", "previews",
               "builds", "usage", "profile", "configs"}
  /\ QuotaInit /\ EnforcementInit /\ MeteringInit /\ StorageInit
  /\ SessionsInit /\ AccountsInit /\ TenancyInit /\ ConsentInit
  /\ StreamsInit /\ FlagsInit /\ DashboardInit /\ WizardInit
  /\ PreviewsInit /\ BuildsInit /\ UsageInit /\ ProfileInit
  /\ ConfigsInit
  /\ hub["b"] > hub["c"]   \* alike too
  /\ part # "wizard" => hub["a"] = 0
  /\ IF part = "builds" THEN networks \in MCNetworks
     ELSE networks = {} /\ order = MCOrder

work == <<quotaVars, enforcementVars, meteringVars, storageVars>>
accounting == <<sessionsVars, accountsVars, tenancyVars, consentVars>>
pages == <<streamVars, flagsVars, dashboardVars, wizardVars>>
sites == <<previewsVars, buildsVars, usageVars, profileVars, configsVars>>

Next ==
  \/ part = "quota" /\ QuotaNext
     /\ UNCHANGED <<part, accounting, pages, sites, enforcementVars, meteringVars, storageVars>>
  \/ part = "enforcement" /\ EnforcementNext
     /\ UNCHANGED <<part, accounting, pages, sites, quotaVars, meteringVars, storageVars>>
  \/ part = "metering" /\ MeteringNext
     /\ UNCHANGED <<part, accounting, pages, sites, quotaVars, enforcementVars, storageVars>>
  \/ part = "storage" /\ StorageNext
     /\ UNCHANGED <<part, accounting, pages, sites, quotaVars, enforcementVars, meteringVars>>
  \/ part = "sessions" /\ SessionsNext
     /\ UNCHANGED <<part, work, pages, sites, accountsVars, tenancyVars, consentVars>>
  \/ part = "accounts" /\ AccountsNext
     /\ UNCHANGED <<part, work, pages, sites, sessionsVars, tenancyVars, consentVars>>
  \/ part = "tenancy" /\ TenancyNext
     /\ UNCHANGED <<part, work, pages, sites, sessionsVars, accountsVars, consentVars>>
  \/ part = "consent" /\ ConsentNext
     /\ UNCHANGED <<part, work, pages, sites, sessionsVars, accountsVars, tenancyVars>>
  \/ part = "streams" /\ StreamsNext
     /\ UNCHANGED <<part, work, accounting, sites, flagsVars, dashboardVars, wizardVars>>
  \/ part = "flags" /\ FlagsNext
     /\ UNCHANGED <<part, work, accounting, sites, streamVars, dashboardVars, wizardVars>>
  \/ part = "dashboard" /\ DashboardNext
     /\ UNCHANGED <<part, work, accounting, sites, streamVars, flagsVars, wizardVars>>
  \/ part = "wizard" /\ WizardNext
     /\ UNCHANGED <<part, work, accounting, sites, streamVars, flagsVars, dashboardVars>>
  \/ part = "previews" /\ PreviewsNext
     /\ UNCHANGED <<part, work, accounting, pages, buildsVars, usageVars, profileVars, configsVars>>
  \/ part = "builds" /\ BuildsNext
     /\ UNCHANGED <<part, work, accounting, pages, previewsVars, usageVars, profileVars, configsVars>>
  \/ part = "usage" /\ UsageNext
     /\ UNCHANGED <<part, work, accounting, pages, previewsVars, buildsVars, profileVars, configsVars>>
  \/ part = "profile" /\ ProfileNext
     /\ UNCHANGED <<part, work, accounting, pages, previewsVars, buildsVars, usageVars, configsVars>>
  \/ part = "configs" /\ ConfigsNext
     /\ UNCHANGED <<part, work, accounting, pages, previewsVars, buildsVars, usageVars, profileVars>>

vars == <<part, work, accounting, pages, sites>>

Spec == Init /\ [][Next]_vars

(* The variables of the component have the types its module states.        *)
TypesOK ==
  /\ part = "quota" => QuotaTypeOK
  /\ part = "enforcement" => EnforcementTypeOK
  /\ part = "metering" => MeteringTypeOK
  /\ part = "storage" => StorageTypeOK
  /\ part = "sessions" => SessionsTypeOK
  /\ part = "accounts" => AccountsTypeOK
  /\ part = "tenancy" => TenancyTypeOK
  /\ part = "consent" => ConsentTypeOK
  /\ part = "streams" => StreamsTypeOK
  /\ part = "flags" => FlagsTypeOK
  /\ part = "dashboard" => DashboardTypeOK
  /\ part = "wizard" => WizardTypeOK
  /\ part = "previews" => PreviewsTypeOK
  /\ part = "builds" => BuildsTypeOK
  /\ part = "usage" => UsageTypeOK
  /\ part = "profile" => ProfileTypeOK
  /\ part = "configs" => ConfigsTypeOK
================================================================================
