------------------------------ MODULE ClientApi ------------------------------
(***************************************************************************)
(* The requests the web client makes, hook by hook (src/frontend/src/      *)
(* hooks): for a query, its key and the records its answer is made of; for *)
(* a mutation, the records it writes and the keys it invalidates when it   *)
(* has succeeded.  Invalidating a key marks every cached query whose key   *)
(* begins with it.                                                         *)
(*                                                                         *)
(* A key is the tuple of the source.  Its parameters (filters, ids, slugs) *)
(* are written "filters", "id" and so on: a page mounts one of each at a   *)
(* time, and an id the mutation names is the id of the page.               *)
(***************************************************************************)
EXTENDS SequencesExt

Hook == [key : Seq(STRING), reads : SUBSET STRING,
         writes : SUBSET STRING, clears : SUBSET Seq(STRING)]

Query(key, reads) ==
  [key |-> key, reads |-> reads, writes |-> {}, clears |-> {}]
Mutation(writes, clears) ==
  [key |-> <<>>, reads |-> {}, writes |-> writes, clears |-> clears]

\* A request that changes no record a page shows: a mail, a download, a
\* password.
Errand == Mutation({}, {})

-----------------------------------------------------------------------------
(* The portal. *)

PortalQueries ==
  [useMySubscription |->
     Query(<<"portal", "my-subscription">>, {"subscription", "invoice"}),
   useAvailablePlans |-> Query(<<"portal", "plans", "slug">>, {"plan"}),
   usePortalProRataPreview |->
     Query(<<"portal", "pro-rata", "id", "plan">>, {"subscription", "plan"}),
   usePortalDowngradePreview |->
     Query(<<"portal", "downgrade-preview", "id", "plan">>, {"subscription", "plan"})]

PortalSubscriptionMutations ==
  LET mine == {<<"portal", "my-subscription">>}
  IN [usePortalSubscribe |-> Mutation({"subscription", "invoice"}, mine),
      usePortalUpgrade |-> Mutation({"subscription", "invoice"}, mine),
      usePortalDowngrade |-> Mutation({"subscription"}, mine),
      useCancelScheduledDowngrade |-> Mutation({"subscription"}, mine),
      useCancelSubscription |-> Mutation({"subscription"}, mine)]

PortalBilling ==
  [useMyInvoices |-> Query(<<"portal", "invoices", "filters">>, {"invoice"}),
   useDownloadPortalInvoicePdf |-> Errand,
   useMyPayments |-> Query(<<"portal", "payments">>, {"payment"}),
   usePortalPayment |->
     Mutation({"payment", "invoice"},
              {<<"portal", "invoices">>, <<"portal", "payments">>,
               <<"portal", "my-subscription">>})]

PortalAccount ==
  [usePortalProfile |-> Query(<<"portal", "profile">>, {"profile"}),
   useUpdateProfile |-> Mutation({"profile"}, {<<"portal", "profile">>}),
   useChangePassword |-> Errand,
   useActiveSessions |-> Query(<<"portal", "sessions">>, {"session"}),
   useRevokeSession |-> Mutation({"session"}, {<<"portal", "sessions">>}),
   useRevokeAllSessions |-> Mutation({"session"}, {<<"portal", "sessions">>})]

-----------------------------------------------------------------------------
(* The subscriptions of a company. *)

SubscriptionQueries ==
  [useSubscriptions |->
     Query(<<"company", "subscriptions", "filters">>, {"subscription"}),
   useSubscription |-> Query(<<"company", "subscriptions", "id">>, {"subscription"}),
   useCustomerSearch |->
     Query(<<"company", "customers", "search", "term">>, {"customer"}),
   useCompanyPlans |-> Query(<<"company", "plans">>, {"plan"}),
   useProductSearch |->
     Query(<<"company", "products", "search", "term">>, {"product"}),
   useQuotationTemplates |-> Query(<<"company", "templates">>, {"template"})]

SubscriptionPanels ==
  LET of(panel) == <<"company", "subscriptions", "id">> \o panel
  IN [useSubscriptionInvoices |-> Query(of(<<"invoices">>), {"invoice"}),
      useSubscriptionTimeline |-> Query(of(<<"timeline">>), {"audit"}),
      useChurnRisk |-> Query(<<"company", "customers", "id", "churn">>, {"churn"}),
      useDunningInfo |-> Query(of(<<"dunning">>), {"dunning"}),
      useProRataPreview |-> Query(of(<<"pro-rata", "plan">>), {"subscription", "plan"}),
      useDowngradePreview |->
        Query(of(<<"downgrade-preview", "plan">>), {"subscription", "plan"}),
      useBulkConflicts |->
        Query(<<"company", "subscriptions", "bulk", "conflicts", "ids", "action">>,
              {"subscription"}),
      useBulkJobStatus |-> Query(<<"company", "bulk-jobs", "job">>, {"job"})]

SubscriptionMutations ==
  LET all == <<"company", "subscriptions">>
      this == <<"company", "subscriptions", "id">>
  IN [useCreateSubscription |-> Mutation({"subscription"}, {all}),
      useTransitionSubscription |->
        Mutation({"subscription", "invoice"}, {this, all}),
      useUpgradeSubscription |-> Mutation({"subscription", "invoice"}, {this}),
      useDowngradeSubscription |-> Mutation({"subscription"}, {this}),
      useBulkExecute |-> Mutation({"subscription", "job"}, {})]

-----------------------------------------------------------------------------
(* The other pages of a company. *)

InvoiceHooks ==
  [useInvoices |-> Query(<<"invoices", "filters">>, {"invoice"}),
   useInvoice |-> Query(<<"invoice", "id">>, {"invoice"}),
   useGenerateInvoice |-> Mutation({"invoice"}, {<<"invoices">>}),
   useConfirmInvoice |-> Mutation({"invoice"}, {<<"invoices">>, <<"invoice">>}),
   useSendInvoice |-> Errand,
   useCancelInvoice |-> Mutation({"invoice"}, {<<"invoices">>, <<"invoice">>}),
   useDownloadInvoicePdf |-> Errand]

InvoicePickers ==
  [useSubscriptionPreview |->
     Query(<<"subscription-preview", "id">>, {"subscription", "discount"}),
   useSubscriptionOptions |->
     Query(<<"subscription-options", "term">>, {"subscription"})]

PaymentHooks ==
  [usePayments |-> Query(<<"payments", "filters">>, {"payment"}),
   usePaymentSummary |-> Query(<<"payment-summary">>, {"payment", "invoice"}),
   useRecordPayment |->
     Mutation({"payment", "invoice"},
              {<<"payments">>, <<"payment-summary">>, <<"invoices">>}),
   useUnpaidInvoices |-> Query(<<"unpaid-invoices", "term">>, {"invoice"})]

\* Faulty: a deleted plan stays in the list.
PlanHooks_Kept ==
  [usePlans |-> Query(<<"plans", "page", "limit">>, {"plan"}),
   useActivePlans |-> Query(<<"plans", "active">>, {"plan"}),
   useCreatePlan |-> Mutation({"plan"}, {<<"plans">>}),
   useUpdatePlan |-> Mutation({"plan"}, {<<"plans">>}),
   useDeletePlan |-> Mutation({"plan"}, {<<"plans", "active">>})]

PlanHooks ==
  [usePlans |-> Query(<<"plans", "page", "limit">>, {"plan"}),
   useActivePlans |-> Query(<<"plans", "active">>, {"plan"}),
   useCreatePlan |-> Mutation({"plan"}, {<<"plans">>}),
   useUpdatePlan |-> Mutation({"plan"}, {<<"plans">>}),
   useDeletePlan |-> Mutation({"plan"}, {<<"plans">>})]

ProductHooks ==
  [useProducts |-> Query(<<"products", "page", "limit">>, {"product"}),
   useCreateProduct |-> Mutation({"product"}, {<<"products">>}),
   useUpdateProduct |-> Mutation({"product"}, {<<"products">>}),
   useDeleteProduct |-> Mutation({"product"}, {<<"products">>})]

DiscountHooks ==
  [useDiscounts |-> Query(<<"discounts", "page", "limit">>, {"discount"}),
   useCreateDiscount |-> Mutation({"discount"}, {<<"discounts">>}),
   useUpdateDiscount |-> Mutation({"discount"}, {<<"discounts">>}),
   useDeleteDiscount |-> Mutation({"discount"}, {<<"discounts">>})]

TemplateHooks ==
  [useTemplates |-> Query(<<"templates", "page", "limit">>, {"template"}),
   useCreateTemplate |-> Mutation({"template"}, {<<"templates">>}),
   useUpdateTemplate |-> Mutation({"template"}, {<<"templates">>}),
   useDeleteTemplate |-> Mutation({"template"}, {<<"templates">>})]

TaxHooks ==
  [useTaxes |-> Query(<<"taxes">>, {"tax"}),
   useCreateTax |-> Mutation({"tax"}, {<<"taxes">>}),
   useUpdateTax |-> Mutation({"tax"}, {<<"taxes">>}),
   useDeleteTax |-> Mutation({"tax"}, {<<"taxes">>})]

CustomerHooks ==
  [useCustomers |-> Query(<<"customers", "page", "limit", "filters">>, {"customer"}),
   useCustomerDetail |->
     Query(<<"customers", "id">>,
           {"customer", "subscription", "churn", "invoice", "dunning"}),
   useInviteCustomer |-> Mutation({"customer"}, {<<"customers">>})]

DunningHooks ==
  [useDunningSchedules |-> Query(<<"dunning", "filters">>, {"dunning"}),
   useDunningSummary |-> Query(<<"dunning-summary">>, {"dunning"})]

ChurnHooks == [useChurnScores |-> Query(<<"company", "churn", "filters">>, {"churn"})]
AuditHooks == [useCompanyAudit |-> Query(<<"company", "audit", "filters">>, {"audit"})]
RevenueHooks == [useRevenue |-> Query(<<"revenue", "filters">>, {"payment", "invoice"})]
DashboardHooks ==
  [useCompanyDashboard |->
     Query(<<"company", "dashboard">>,
           {"subscription", "invoice", "churn", "dunning", "audit"})]

-----------------------------------------------------------------------------
(* The administration of companies. *)

AdminQueries ==
  [useAdminDashboard |->
     Query(<<"admin", "dashboard">>, {"company", "subscription"}),
   useCompanies |-> Query(<<"admin", "companies", "filters">>, {"company"}),
   useCompanyDetail |-> Query(<<"admin", "companies", "id">>, {"company"})]

AdminPanels ==
  LET of(panel) == <<"admin", "companies", "id", panel, "page", "limit">>
  IN [useAdminCompanySubscriptions |-> Query(of("subscriptions"), {"subscription"}),
      useAdminCompanyCustomers |-> Query(of("customers"), {"customer"}),
      useAdminCompanyInvoices |-> Query(of("invoices"), {"invoice"}),
      useAdminAudit |-> Query(<<"admin", "audit", "filters">>, {"audit"})]

AdminMutations ==
  LET all == <<"admin", "companies">>
  IN [useCreateCompany |->
        Mutation({"company", "audit"}, {all, <<"admin", "dashboard">>}),
      useSuspendCompany |-> Mutation({"company", "audit"}, {all}),
      useReactivateCompany |-> Mutation({"company", "audit"}, {all}),
      useDeleteCompany |-> Mutation({"company", "audit"}, {all})]

\* Whether the address typed for a new company is free.
AdminChecks ==
  [useCheckSlug |-> Query(<<"admin", "check-slug", "slug">>, {"company"})]

-----------------------------------------------------------------------------
Hooks ==
  FoldSeq(LAMBDA table, rest : table @@ rest, <<>>,
    <<PortalQueries, PortalSubscriptionMutations, PortalBilling, PortalAccount,
      SubscriptionQueries, SubscriptionPanels, SubscriptionMutations,
      InvoiceHooks, InvoicePickers, PaymentHooks, PlanHooks, ProductHooks,
      DiscountHooks, TemplateHooks, TaxHooks, CustomerHooks, DunningHooks,
      ChurnHooks, AuditHooks, RevenueHooks, DashboardHooks, AdminQueries,
      AdminPanels, AdminMutations, AdminChecks>>)

\* The mutation changes what the query shows.
Touches(m, q) == Hooks[m].writes \cap Hooks[q].reads # {}

\* Its success invalidates the query.
Clears(m, q) == \E prefix \in Hooks[m].clears : IsPrefix(prefix, Hooks[q].key)
=============================================================================
