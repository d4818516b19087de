---------------------------- MODULE ComponentProofs ----------------------------
(***************************************************************************)
(* The components that share no state, taken together as the runs take     *)
(* them: whichever one the initial state chooses, what happens is a        *)
(* behaviour of each of them, because the others leave its variables       *)
(* alone. So what the modules of proofs say of each of them holds of all   *)
(* the behaviours that are checked, with any constants.                    *)
(***************************************************************************)
EXTENDS MCComponents, ServiceProofs, MeteringProofs, PeopleProofs, PageProofs

-------------------------------------------------------------------------------
(* At first every component is at its beginning.                           *)
LEMMA AllBegin ==
  Init => /\ QuotaInit /\ EnforcementInit /\ MeteringInit /\ StorageInit
          /\ SessionsInit /\ AccountsInit /\ TenancyInit /\ ConsentInit
          /\ StreamsInit /\ FlagsInit /\ DashboardInit /\ WizardInit
          /\ PreviewsInit /\ BuildsInit /\ UsageInit /\ ProfileInit
          /\ ConfigsInit
BY Zenon DEF Init

(* A step is a step of one component, and the others rest.                 *)
LEMMA WorkSteps ==
  [Next]_vars =>
    /\ [QuotaNext]_quotaVars
    /\ [EnforcementNext]_enforcementVars
    /\ [MeteringNext]_meteringVars
    /\ [StorageNext]_storageVars
BY Zenon DEF Next, vars, work, accounting, pages, sites

LEMMA AccountingSteps ==
  [Next]_vars =>
    /\ [SessionsNext]_sessionsVars
    /\ [AccountsNext]_accountsVars
    /\ [TenancyNext]_tenancyVars
    /\ [ConsentNext]_consentVars
BY Zenon DEF Next, vars, work, accounting, pages, sites

LEMMA PageSteps ==
  [Next]_vars =>
    /\ [StreamsNext]_streamVars
    /\ [FlagsNext]_flagsVars
    /\ [DashboardNext]_dashboardVars
    /\ [WizardNext]_wizardVars
BY Zenon DEF Next, vars, work, accounting, pages, sites

LEMMA SiteSteps ==
  [Next]_vars =>
    /\ [PreviewsNext]_previewsVars
    /\ [BuildsNext]_buildsVars
    /\ [UsageNext]_usageVars
    /\ [ProfileNext]_profileVars
    /\ [ConfigsNext]_configsVars
BY Zenon DEF Next, vars, work, accounting, pages, sites

-------------------------------------------------------------------------------
(* Every behaviour of the whole is one of each component: the others only  *)
(* ever leave its variables alone.                                         *)
THEOREM EachComponent ==
  Spec => /\ QuotaSpec /\ EnforcementSpec /\ MeteringSpec /\ StorageSpec
          /\ SessionsSpec /\ AccountsSpec /\ TenancySpec /\ ConsentSpec
          /\ StreamsSpec /\ FlagsSpec /\ DashboardSpec /\ WizardSpec
          /\ PreviewsSpec /\ BuildsSpec /\ UsageSpec /\ ProfileSpec
          /\ ConfigsSpec
BY AllBegin, WorkSteps, AccountingSteps, PageSteps, SiteSteps, PTL
   DEF Spec, QuotaSpec, EnforcementSpec, MeteringSpec, StorageSpec,
       SessionsSpec, AccountsSpec, TenancySpec, ConsentSpec,
       StreamsSpec, FlagsSpec, DashboardSpec, WizardSpec, PreviewsSpec,
       BuildsSpec, UsageSpec, ProfileSpec, ConfigsSpec

-------------------------------------------------------------------------------
(* The variables of the component that runs have the types its module      *)
(* states; so have those of the others.                                    *)
THEOREM TypesAreCorrect == Spec => []TypesOK
<1>1. (/\ QuotaTypeOK /\ EnforcementTypeOK /\ MeteringTypeOK /\ StorageTypeOK
       /\ SessionsTypeOK /\ AccountsTypeOK /\ TenancyTypeOK /\ ConsentTypeOK
       /\ StreamsTypeOK /\ FlagsTypeOK /\ DashboardTypeOK /\ WizardTypeOK
       /\ PreviewsTypeOK /\ BuildsTypeOK /\ UsageTypeOK /\ ProfileTypeOK
       /\ ConfigsTypeOK)
        => TypesOK
  BY Zenon DEF TypesOK
<1> QED
  BY <1>1, EachComponent, QuotaTypeCorrect, EnforcementTypeCorrect, MeteringTypeCorrect,
     StorageTypeCorrect, SessionsTypeCorrect, AccountsTypeCorrect, TenancyTypeCorrect,
     ConsentTypeCorrect, StreamsTypeCorrect, FlagsTypeCorrect, DashboardTypeCorrect,
     WizardTypeCorrect, PreviewsTypeCorrect, BuildsTypeCorrect, UsageTypeCorrect,
     ProfileTypeCorrect, ConfigsTypeCorrect, PTL
===============================================================================
