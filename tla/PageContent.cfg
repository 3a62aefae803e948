CONSTANTS
  Name <- Names
  HttpNames = {"http:", "httpd"}
  Schemes = {"http:", "mailto:"}
  Aside = {":8080"}
  LowerOf <- InLowerCase
  Long = {"http:", "httpd", "mailto:", ":8080", "site", "Site", "dir", "page", "Cat", "cat"}
  PageUrls <- Urls
  Htmls <- FewHtmls
  NoWords = NoWords
SPECIFICATION Spec
INVARIANTS ContentTypeOK SoundLinksLead AllLinksOrNone VisibleWordsCount
CHECK_DEADLOCK FALSE
