----------------------------- MODULE ClientPages -----------------------------
(***************************************************************************)
(* The pages of the web client and the dialogs they offer, as far as they  *)
(* decide how a request and its answer meet the screen                     *)
(* (src/frontend/src/pages/).                                              *)
(*                                                                         *)
(* A page: the queries it shows and which of their conditions replace the  *)
(* whole page (the early returns of the component); the queries whose      *)
(* filters or page number it changes; the dialogs it offers, among which   *)
(* count its own buttons.                                                  *)
(*                                                                         *)
(* A dialog:                                                               *)
(*   sends   its mutations                                                 *)
(*   asks    queries of its own                                            *)
(*   lives   "page": it is part of the page; "kept": a component mounted   *)
(*           with the page, shown or not; "open": mounted while it is open *)
(*   guard   what disables its button: "request", the pending mutation;    *)
(*           "local", a state of its own that closing resets; "none"       *)
(*   after   how it goes on after a success: "callback" of mutate(), which *)
(*           is not called when the component is gone; "await", the rest   *)
(*           of the function; "nothing"                                    *)
(*   closes  when it closes: on "success", when "settled", "later" by a button  *)
(*           of its last step, "never" because it is no dialog             *)
(*   leaves  it then navigates to another page                             *)
(***************************************************************************)
EXTENDS ClientApi

Nothing == {}
Loader == {"loading"}             \* if (isLoading) return <PageLoader />
ErrorPage == {"error"}            \* if (isError) return <PageError />
Both == {"loading", "error"}

Page(shows, turns, offers) == [shows |-> shows, turns |-> turns, offers |-> offers]

Form(sends) ==
  [sends |-> sends, asks |-> {}, lives |-> "open", guard |-> "request",
   after |-> "await", closes |-> "success", leaves |-> FALSE]
Modal(sends) == [Form(sends) EXCEPT !.lives = "kept", !.after = "callback"]
Confirm(sends) == [Form(sends) EXCEPT !.lives = "page"]
Button(sends) ==
  [Form(sends) EXCEPT !.lives = "page", !.after = "nothing", !.closes = "never"]

-----------------------------------------------------------------------------
(* Dialogs. *)

PlanForm == Form({"useCreatePlan", "useUpdatePlan"})
ProductForm == Form({"useCreateProduct", "useUpdateProduct"})
DiscountForm == Form({"useCreateDiscount", "useUpdateDiscount"})
TaxForm == Form({"useCreateTax", "useUpdateTax"})
TemplateForm ==
  [Form({"useCreateTemplate", "useUpdateTemplate"}) EXCEPT
     !.asks = {"useActivePlans", "useProducts"}]
InviteCustomerModal == [Modal({"useInviteCustomer"}) EXCEPT !.after = "await"]
GenerateInvoiceModal ==
  [Modal({"useGenerateInvoice"}) EXCEPT
     !.asks = {"useSubscriptionOptions", "useSubscriptionPreview"}]
RecordPaymentModal ==
  [Modal({"useRecordPayment"}) EXCEPT !.asks = {"useUnpaidInvoices"}]
UpgradeModal ==
  [Form({"useUpgradeSubscription"}) EXCEPT
     !.asks = {"useCompanyPlans", "useProRataPreview"}]
DowngradeModal ==
  [Form({"useDowngradeSubscription"}) EXCEPT
     !.asks = {"useCompanyPlans", "useDowngradePreview"}]
StatusActionButtons == Confirm({"useTransitionSubscription"})
BulkOperationModal ==
  [Form({"useBulkExecute"}) EXCEPT
     !.asks = {"useBulkConflicts", "useBulkJobStatus"}, !.closes = "later"]
CreateCompanyModal == [Modal({"useCreateCompany"}) EXCEPT !.asks = {"useCheckSlug"}]
\* It navigates to the page it is on.
DeleteCompanyModal == [Form({"useDeleteCompany"}) EXCEPT !.after = "callback"]
SuspendCompany ==
  [Confirm({"useSuspendCompany", "useReactivateCompany"}) EXCEPT
     !.after = "callback", !.closes = "settled"]
PlanSwitchModal ==
  [Modal({"usePortalUpgrade", "usePortalDowngrade"}) EXCEPT
     !.asks = {"useAvailablePlans", "usePortalProRataPreview",
               "usePortalDowngradePreview"}]
CancelScheduled == [Button({"useCancelScheduledDowngrade"}) EXCEPT !.lives = "kept"]
CancelSubscriptionModal == Modal({"useCancelSubscription"})
PortalPaymentModal == [Modal({"usePortalPayment"}) EXCEPT !.guard = "local"]
Subscribe ==
  [Button({"usePortalSubscribe"}) EXCEPT
     !.guard = "none", !.after = "callback", !.leaves = TRUE]
PersonalInfoSection == [Button({"useUpdateProfile"}) EXCEPT !.lives = "kept"]
ChangePasswordSection == [Button({"useChangePassword"}) EXCEPT !.lives = "kept"]
ActiveSessionsSection ==
  [Button({"useRevokeSession", "useRevokeAllSessions"}) EXCEPT !.lives = "kept"]

-----------------------------------------------------------------------------
(* Pages of a company. *)

Paged(query, offers) == Page(query :> Loader, {query}, offers)
Filtered(query, offers) == Page(query :> Both, {query}, offers)

PlansPage == Paged("usePlans", {PlanForm, Confirm({"useDeletePlan"})})
ProductsPage == Paged("useProducts", {ProductForm, Confirm({"useDeleteProduct"})})
DiscountsPage == Paged("useDiscounts", {DiscountForm, Confirm({"useDeleteDiscount"})})
TemplatesPage == Paged("useTemplates", {TemplateForm, Confirm({"useDeleteTemplate"})})
TaxesPage == Page("useTaxes" :> Loader, {}, {TaxForm, Confirm({"useDeleteTax"})})
CustomersPage == Paged("useCustomers", {InviteCustomerModal})
CustomerDetailPage == Page("useCustomerDetail" :> Both, {}, {})
InvoicesPage ==
  Filtered("useInvoices",
           {GenerateInvoiceModal,
            Button({"useConfirmInvoice", "useSendInvoice", "useDownloadInvoicePdf",
                    "useCancelInvoice"})})
InvoiceDetailPage ==
  Page("useInvoice" :> Both, {},
       {Button({"useConfirmInvoice", "useSendInvoice", "useDownloadInvoicePdf",
                "useCancelInvoice"})})
PaymentsPage ==
  Page([usePayments |-> Both, usePaymentSummary |-> Nothing], {"usePayments"},
       {RecordPaymentModal})
SubscriptionsPage ==
  Page("useSubscriptions" :> ErrorPage, {"useSubscriptions"}, {BulkOperationModal})

InvoiceHistoryTable == "useSubscriptionInvoices" :> Nothing
TimelineCard == "useSubscriptionTimeline" :> Nothing
ChurnRiskCard == "useChurnRisk" :> Nothing
DunningCard == "useDunningInfo" :> Nothing
SubscriptionDetailPage ==
  Page("useSubscription" :> Both @@ InvoiceHistoryTable @@ TimelineCard
         @@ ChurnRiskCard @@ DunningCard, {},
       {StatusActionButtons, UpgradeModal, DowngradeModal})

DunningPage ==
  Page([useDunningSchedules |-> Both, useDunningSummary |-> Nothing],
       {"useDunningSchedules"}, {})
ChurnPage == Paged("useChurnScores", {})
AuditPage == Paged("useCompanyAudit", {})
RevenuePage == Filtered("useRevenue", {})
CompanyDashboard == Page("useCompanyDashboard" :> Loader, {}, {})

-----------------------------------------------------------------------------
(* Pages of the administration. *)

AdminDashboard == Page("useAdminDashboard" :> Both, {}, {})
CompaniesPage ==
  Filtered("useCompanies", {CreateCompanyModal, SuspendCompany, DeleteCompanyModal})
CompanySubscriptionsTab == Paged("useAdminCompanySubscriptions", {})
CompanyCustomersTab == Paged("useAdminCompanyCustomers", {})
CompanyInvoicesTab == Paged("useAdminCompanyInvoices", {})
CompanyAuditTab == Paged("useAdminAudit", {})
CompanyDetailPage == Page("useCompanyDetail" :> Both, {}, {})
AuditLogPage == Filtered("useAdminAudit", {})

-----------------------------------------------------------------------------
(* Pages of the portal. *)

MySubscriptionPage ==
  Page("useMySubscription" :> Both, {},
       {PlanSwitchModal, CancelScheduled, CancelSubscriptionModal})
PortalPlansPage ==
  Page([useAvailablePlans |-> Both, useMySubscription |-> Nothing], {},
       {Subscribe, PlanSwitchModal, CancelScheduled})
PortalInvoicesPage ==
  Filtered("useMyInvoices",
           {PortalPaymentModal, Button({"useDownloadPortalInvoicePdf"})})
PortalPaymentsPage ==
  Page([useMyPayments |-> Both, useMyInvoices |-> Nothing], {}, {PortalPaymentModal})
ProfilePage ==
  Page([usePortalProfile |-> Both, useActiveSessions |-> Nothing], {},
       {PersonalInfoSection, ChangePasswordSection, ActiveSessionsSection})

PagesOfClient ==
  {PlansPage, ProductsPage, DiscountsPage, TemplatesPage, TaxesPage, CustomersPage,
   CustomerDetailPage, InvoicesPage, InvoiceDetailPage, PaymentsPage,
   SubscriptionsPage, SubscriptionDetailPage, DunningPage, ChurnPage, AuditPage,
   RevenuePage, CompanyDashboard, AdminDashboard, CompaniesPage,
   CompanySubscriptionsTab, CompanyCustomersTab, CompanyInvoicesTab,
   CompanyAuditTab, CompanyDetailPage, AuditLogPage, MySubscriptionPage,
   PortalPlansPage, PortalInvoicesPage, PortalPaymentsPage, ProfilePage}

-----------------------------------------------------------------------------
(***************************************************************************)
(* What is followed: one query of a page beside one mutation of one of its *)
(* dialogs.  Pages that agree in all that decides how the two meet behave  *)
(* alike, so the model follows their common shape.                         *)
(***************************************************************************)
Asked(p) == UNION {d.asks : d \in p.offers}

\* The pairs of one page in which a mutation touches a query it does not
\* clear: what the dialogs ask in advance, and the list under a bulk job.
Missed ==
  ({"usePortalSubscribe", "usePortalUpgrade", "usePortalDowngrade",
    "useCancelScheduledDowngrade", "useCancelSubscription"}
     \X {"usePortalProRataPreview", "usePortalDowngradePreview"})
  \cup ({"useCreateCompany", "useDeleteCompany", "useSuspendCompany",
         "useReactivateCompany"} \X {"useCheckSlug"})
  \cup ({"useBulkExecute"}
         \X {"useSubscriptions", "useBulkConflicts", "useBulkJobStatus"})
  \cup {<<"useRecordPayment", "useUnpaidInvoices">>}

ShapeOf(p, q, d, m) ==
  [hides |-> IF q \in DOMAIN p.shows THEN p.shows[q] ELSE {},
   turns |-> q \in p.turns \cup Asked(p),
   clears |-> Clears(m, q),
   missed |-> <<m, q>> \in Missed,
   lives |-> d.lives, guard |-> d.guard, after |-> d.after,
   closes |-> d.closes, leaves |-> d.leaves]

ShapesOf(p) ==
  {ShapeOf(p, x[1], x[2], x[3]) : x \in
     {x \in (DOMAIN p.shows \cup Asked(p)) \X p.offers \X UNION {d.sends : d \in p.offers} :
        x[3] \in x[2].sends /\ Touches(x[3], x[1])}}

PageShapes == UNION {ShapesOf(p) : p \in PagesOfClient}
=============================================================================
